---- MODULE Spec2Model ----
(***************************************************************************)
(* A model of the CIP document uploader's conversion pipeline:             *)
(* converters.py (file sequencing, merge, reference-code resolution, the   *)
(* per-process converters, process_excel) and the part of app.py's         *)
(* process_files handler that consumes process_excel's result.             *)
(*                                                                         *)
(* Text is modelled as a sequence of one-character strings, so that the    *)
(* code's substring tests, splits and regular expressions are computed.    *)
(***************************************************************************)
EXTENDS Integers, Sequences, FiniteSets, TLC

VARIABLES
    process_type,   \* process_files / process_excel: the process discriminator
    columns,        \* df.columns of every uploaded sheet of the request
    files,          \* the uploaded files, in upload order
    pc,             \* position of the request in the pipeline
    sorted_files,   \* merge_excel_files: sorted_files
    i,              \* merge_excel_files: index of the file being merged
    merged_data,    \* merge_excel_files: merged_data, one row list per appended frame
    df,             \* the table handed to the converter (its rows)
    index,          \* converter: index of the row being processed
    serial_number,  \* converter: serial_number
    result_data,    \* converter: result_data
    result,         \* what process_excel returned or raised
    response,       \* what process_files answered
    today,          \* the date of the clock when the conversion runs, as a day number
    loads,          \* how many times "Port Code List.xlsx" has been read
    port_file,      \* whether "Port Code List.xlsx" exists: "present" or "absent"
    shb_port,       \* convert_brc: the 'SHB Port' value of each emitted row
    port_df,        \* load_port_code_mapping: the rows of the reference table
    port_mapping,   \* load_port_code_mapping: the alias table, in insertion order
    port_name,      \* get_port_code: the query
    port_code,      \* get_port_code: the value returned
    value,          \* a normalizer's argument: the cell value
    normalized,     \* what the output row holds for that cell
    threads,        \* the position of each thread of the server
    temp_file,      \* process_files: the file at temp_file_path and who removed it
    AUTOMATION_AVAILABLE  \* app.py: whether selenium_automation could be imported

vars == <<process_type, columns, files, pc, sorted_files, i, merged_data, df,
          index, serial_number, result_data, result, response,
          today, loads, port_file, shb_port,
          port_df, port_mapping, port_name, port_code,
          value, normalized, threads,
          temp_file, AUTOMATION_AVAILABLE>>

----------------------------------------------------------------------------
(* Characters and strings *)

UpperAlpha == <<"A","B","C","D","E","F","G","H","I","J","K","L","M",
                "N","O","P","Q","R","S","T","U","V","W","X","Y","Z">>
LowerAlpha == <<"a","b","c","d","e","f","g","h","i","j","k","l","m",
                "n","o","p","q","r","s","t","u","v","w","x","y","z">>
Digits == <<"0","1","2","3","4","5","6","7","8","9">>

Range(s) == { s[k] : k \in DOMAIN s }

PosIn(c, s) == CHOOSE k \in DOMAIN s : s[k] = c

UpperLetters == Range(UpperAlpha)
LowerLetters == Range(LowerAlpha)
DigitChars == Range(Digits)

IsUpper(c) == c \in UpperLetters
IsLowerCh(c) == c \in LowerLetters
IsDigit(c) == c \in DigitChars
IsAlpha(c) == IsUpper(c) \/ IsLowerCh(c)
IsAlnum(c) == IsAlpha(c) \/ IsDigit(c)
\* \w of the re module, on the ASCII characters the model uses
IsWordCh(c) == IsAlnum(c) \/ c = "_"
\* \s of the re module / str.strip(): blank, tab, newline
IsSpace(c) == c \in {" ", "\t", "\n"}

LowerCh(c) == IF IsUpper(c) THEN LowerAlpha[PosIn(c, UpperAlpha)] ELSE c
UpperCh(c) == IF IsLowerCh(c) THEN UpperAlpha[PosIn(c, LowerAlpha)] ELSE c

\* str.lower(), str.upper()
Lower(s) == [k \in DOMAIN s |-> LowerCh(s[k])]
Upper(s) == [k \in DOMAIN s |-> UpperCh(s[k])]

\* sub in s
Contains(s, sub) ==
    \E k \in 1..(Len(s) - Len(sub) + 1) : SubSeq(s, k, k + Len(sub) - 1) = sub

\* s.endswith(suffix)
EndsWith(s, suffix) ==
    /\ Len(suffix) <= Len(s)
    /\ SubSeq(s, Len(s) - Len(suffix) + 1, Len(s)) = suffix

\* str.strip()
RECURSIVE LStrip(_)
LStrip(s) == IF s # <<>> /\ IsSpace(Head(s)) THEN LStrip(Tail(s)) ELSE s
RECURSIVE RStrip(_)
RStrip(s) ==
    IF s # <<>> /\ IsSpace(s[Len(s)]) THEN RStrip(SubSeq(s, 1, Len(s) - 1)) ELSE s
Strip(s) == RStrip(LStrip(s))

\* int() of a run of decimal digits
RECURSIVE DigitsToInt(_)
DigitsToInt(s) ==
    IF s = <<>> THEN 0
    ELSE 10 * DigitsToInt(SubSeq(s, 1, Len(s) - 1)) + (PosIn(s[Len(s)], Digits) - 1)

AllDigits(s) == \A k \in DOMAIN s : IsDigit(s[k])

\* the sequences over S of length at most n
SeqsUpTo(S, n) == UNION { [1..m -> S] : m \in 0..n }

----------------------------------------------------------------------------
(* File sequencing: extract_file_number, sort_files_by_sequence *)

\* filename.split('.')[0]
BeforeFirstDot(filename) ==
    IF \E k \in DOMAIN filename : filename[k] = "."
    THEN SubSeq(filename, 1,
                (CHOOSE k \in DOMAIN filename :
                    /\ filename[k] = "."
                    /\ \A j \in 1..(k - 1) : filename[j] # ".") - 1)
    ELSE filename

\* s[a..b] is a match of \((\d+)\)
IsParenNumber(s, a, b) ==
    /\ a \in DOMAIN s /\ b \in DOMAIN s /\ b >= a + 2
    /\ s[a] = "(" /\ s[b] = ")"
    /\ AllDigits(SubSeq(s, a + 1, b - 1))

\* re.search(r'\((\d+)\)', filename): the leftmost match, 0 when none
extract_file_number(filename) ==
    LET stem == BeforeFirstDot(filename)
        starts == { a \in DOMAIN stem : \E b \in DOMAIN stem : IsParenNumber(stem, a, b) }
    IN  IF starts = {} THEN 0
        ELSE LET a == CHOOSE x \in starts : \A y \in starts : x <= y
                 b == CHOOSE y \in DOMAIN stem : IsParenNumber(stem, a, y)
             IN  DigitsToInt(SubSeq(stem, a + 1, b - 1))

\* list.sort(key=...) is stable: an element goes after every element whose key
\* is not greater than its own
RECURSIVE InsertByKeyMut(_, _)
InsertByKeyMut(sorted, f) ==
    IF sorted = <<>> THEN <<f>>
    ELSE IF extract_file_number(f.filename) <= extract_file_number(Head(sorted).filename)
         THEN <<f>> \o sorted
         ELSE <<Head(sorted)>> \o InsertByKeyMut(Tail(sorted), f)

RECURSIVE InsertByKey(_, _)
InsertByKey(sorted, f) ==
    IF sorted = <<>> THEN <<f>>
    ELSE IF extract_file_number(f.filename) < extract_file_number(Head(sorted).filename)
         THEN <<f>> \o sorted
         ELSE <<Head(sorted)>> \o InsertByKey(Tail(sorted), f)

RECURSIVE sort_files_by_sequence(_)
sort_files_by_sequence(fs) ==
    IF fs = <<>> THEN <<>>
    ELSE InsertByKey(sort_files_by_sequence(SubSeq(fs, 1, Len(fs) - 1)), fs[Len(fs)])

----------------------------------------------------------------------------
(* Text constants of the code and of the inputs *)

merge_header_keywords ==
    << <<"b","r","c">>,
       <<"s","b">>,
       <<"d","a","t","e">>,
       <<"n","u","m","b","e","r">>,
       <<"p","o","r","t">>,
       <<"i","n","v","o","i","c","e">>,
       <<"c","u","r","r","e","n","c","y">>,
       <<"r","e","a","l","i","z","a","t","i","o","n">> >>
brc_header_keywords ==
    << <<"b","r","c"," ","n","u","m","b","e","r">>,
       <<"b","r","c"," ","d","a","t","e">>,
       <<"b","r","c"," ","s","t","a","t","u","s">>,
       <<"i","n","v","o","i","c","e"," ","n","u","m","b","e","r">>,
       <<"s","b"," ","n","u","m","b","e","r">>,
       <<"p","o","r","t"," ","c","o","d","e">>,
       <<"s","b"," ","d","a","t","e">>,
       <<"r","e","a","l","i","s","e","d"," ","v","a","l","u","e">>,
       <<"c","u","r","r","e","n","c","y">>,
       <<"r","e","a","l","i","z","a","t","i","o","n","_","d","a","t","e">>,
       <<"b","r","c"," ","u","t","i","l","i","s","a","t","i","o","n"," ","s","t","a","t","u","s">> >>
rodtep_scroll_header_keywords ==
    << <<"s","b">>,
       <<"s","c","r","o","l","l">>,
       <<"d","a","t","e">>,
       <<"n","u","m","b","e","r">>,
       <<"l","o","c","a","t","i","o","n">>,
       <<"a","m","o","u","n","t">> >>
rodtep_scrip_header_keywords ==
    << <<"s","c","r","i","p">>,
       <<"s","c","r","o","l","l">>,
       <<"s","b">>,
       <<"d","a","t","e">>,
       <<"n","u","m","b","e","r">>,
       <<"a","m","o","u","n","t">>,
       <<"b","a","l","a","n","c","e">>,
       <<"s","t","a","t","u","s">> >>

t_sb_number == <<"s","b"," ","n","u","m","b","e","r">>
t_shipping_bill == <<"s","h","i","p","p","i","n","g"," ","b","i","l","l">>
t_sb_date == <<"s","b"," ","d","a","t","e">>
t_shipping_bill_date == <<"s","h","i","p","p","i","n","g"," ","b","i","l","l"," ","d","a","t","e">>
t_scroll_number == <<"s","c","r","o","l","l"," ","n","u","m","b","e","r">>
t_scroll_date == <<"s","c","r","o","l","l"," ","d","a","t","e">>
t_location == <<"l","o","c","a","t","i","o","n">>
t_sanctioned == <<"s","a","n","c","t","i","o","n","e","d">>
t_amount == <<"a","m","o","u","n","t">>
t_scrip_no == <<"s","c","r","i","p"," ","n","o">>
t_scrip_issue_date == <<"s","c","r","i","p"," ","i","s","s","u","e"," ","d","a","t","e">>
t_scrip_exp_date == <<"s","c","r","i","p"," ","e","x","p"," ","d","a","t","e">>
t_scrip_expiry_date == <<"s","c","r","i","p"," ","e","x","p","i","r","y"," ","d","a","t","e">>
t_scrip_issued_amount == <<"s","c","r","i","p"," ","i","s","s","u","e","d"," ","a","m","o","u","n","t">>
t_scrip_balance == <<"s","c","r","i","p"," ","b","a","l","a","n","c","e">>
t_scrip_transfer_date == <<"s","c","r","i","p"," ","t","r","a","n","s","f","e","r"," ","d","a","t","e">>
t_scrip_status == <<"s","c","r","i","p"," ","s","t","a","t","u","s">>
col_Shipping_Bill_No == <<"S","h","i","p","p","i","n","g"," ","B","i","l","l"," ","N","o",".">>
col_IGST_Scroll_No == <<"I","G","S","T"," ","S","c","r","o","l","l"," ","N","o">>

LayoutScroll ==
    << <<"S","B"," ","N","u","m","b","e","r">>,
       <<"S","B"," ","D","a","t","e">>,
       <<"S","c","r","o","l","l"," ","N","u","m","b","e","r">>,
       <<"S","c","r","o","l","l"," ","D","a","t","e">>,
       <<"S","t","a","t","u","s">>,
       <<"L","o","c","a","t","i","o","n">>,
       <<"A","m","o","u","n","t">> >>
LayoutIgst ==
    << <<"S","h","i","p","p","i","n","g"," ","B","i","l","l"," ","N","o",".">>,
       <<"S","h","i","p","p","i","n","g"," ","B","i","l","l"," ","D","a","t","e">>,
       <<"I","G","S","T"," ","S","c","r","o","l","l"," ","N","o">>,
       <<"I","G","S","T"," ","S","c","r","o","l","l"," ","D","a","t","e">>,
       <<"S","c","r","o","l","l"," ","A","m","o","u","n","t","(","I","N","R",")">>,
       <<"S","c","r","o","l","l"," ","S","t","a","t","u","s"," ","A","t"," ","P","F","M","S">>,
       <<"B","a","n","k"," ","R","e","s","p","o","n","s","e"," ","C","o","d","e">> >>
LayoutPlain ==
    << <<"A">>,
       <<"B">>,
       <<"C">>,
       <<"D">>,
       <<"E">>,
       <<"F">>,
       <<"G">> >>

----------------------------------------------------------------------------
(* Input data: cells, rows, sheets and uploaded files *)

\* A cell of a DataFrame: NaN (an empty spreadsheet cell), a str or a number.
\* None is what a converter holds for a field whose column it did not find.
NaN == [k |-> "nan", v |-> <<>>]
None == [k |-> "none", v |-> <<>>]
Str(s) == [k |-> "str", v |-> s]
Num(s) == [k |-> "num", v |-> s]

\* pd.isna(value)
isna(c) == c.k \in {"nan", "none"}
\* isinstance(cell, str)
isstr(c) == c.k = "str"

c_123 == <<"1","2","3">>
c_456 == <<"4","5","6">>
c_1500 == <<"1","5","0","0">>
c_IS1 == <<"I","S","1">>
c_IS2 == <<"I","S","2">>
c_10Jul == <<"1","0","-","J","u","l","-","2","0","2","5">>
c_11Jul == <<"1","1","-","J","u","l","-","2","0","2","5">>
c_INNSA1 == <<"I","N","N","S","A","1">>
c_SB123 == <<"S","B","1","2","3">>
c_NSPort == <<"N","h","a","v","a"," ","S","h","e","v","a"," ","P","o","r","t">>
c_Invoice7 == <<"I","n","v","o","i","c","e"," ","7">>

\* A row holds its cells and whether processing its values raises an
\* exception inside a converter's per-row try block.
Row(cells, raises) == [cells |-> cells, raises |-> raises]

row_data == Row(<<Num(c_123), Str(c_10Jul), Str(c_IS1), Str(c_11Jul), NaN, Str(c_INNSA1), Num(c_1500)>>, FALSE)
row_data2 == Row(<<Num(c_456), Str(c_10Jul), Str(c_IS2), Str(c_11Jul), NaN, Str(c_INNSA1), Num(c_1500)>>, FALSE)
row_blank == Row(<<NaN, NaN, NaN, NaN, NaN, NaN, NaN>>, FALSE)
row_noid == Row(<<NaN, Str(c_10Jul), NaN, Str(c_11Jul), NaN, Str(c_INNSA1), Num(c_1500)>>, FALSE)
row_bad == Row(<<Num(c_456), Str(c_10Jul), Str(c_IS2), NaN, NaN, NaN, Num(c_1500)>>, TRUE)
\* three cells that carry a merge header keyword (sb, port, invoice)
row_kw3 == Row(<<Str(c_SB123), Str(c_10Jul), Str(c_IS1), Str(c_11Jul), NaN, Str(c_Invoice7), Str(c_NSPort)>>, FALSE)
\* a repeated header row: four cells carry a merge header keyword
row_header == Row(<<Str(LayoutScroll[1]), Str(LayoutScroll[2]), Str(LayoutScroll[3]), Str(LayoutScroll[4]),
                    Str(LayoutScroll[5]), Str(LayoutScroll[6]), Str(LayoutScroll[7])>>, FALSE)

fn_x == <<"x",".","x","l","s","x">>
fn_x1 == <<"x","(","1",")",".","x","l","s","x">>
fn_x2 == <<"x","(","2",")",".","x","l","s","x">>
fn_report1 == <<"r","e","p","o","r","t","(","1",")",".","x","l","s">>
fn_ab3 == <<"a",".","b","(","3",")",".","x","l","s","x">>
fn_e == <<"e",".","x","l","s">>
fn_y21 == <<"y","(","2",")","(","1",")",".","x","l","s">>

ext_xls == <<".","x","l","s">>
ext_xlsx == <<".","x","l","s","x">>

\* An uploaded file: its name, its rows below the sheet's header line, and how
\* pd.read_excel fares on it: "ok", "corrupt" (the bytes do not parse) or
\* "no_reader" (the reader library for its format is not installed).
File(filename, load, rows) == [filename |-> filename, load |-> load, rows |-> rows]

FilePool ==
    { File(fn_x2, "ok", <<row_header, row_noid, row_data>>),
      File(fn_x1, "ok", <<row_bad, row_kw3, row_blank, row_data2>>),
      File(fn_x, "ok", <<row_kw3, row_blank>>),
      File(fn_y21, "ok", <<row_noid, row_blank>>),
      File(fn_report1, "no_reader", <<>>),
      File(fn_ab3, "corrupt", <<>>),
      File(fn_e, "ok", <<>>) }

LayoutPool == { LayoutScroll, LayoutIgst, LayoutPlain }

----------------------------------------------------------------------------
(* Results and exceptions *)

ProcessTypes ==
    {"dbk_disbursement", "dbk_pendency", "brc", "irm",
     "igst_scroll", "rodtep_scroll", "rodtep_scrip"}
MergeProcessTypes == {"dbk_disbursement", "dbk_pendency", "brc"}

NoResult == [kind |-> "none", exc |-> "", msg |-> "", rows |-> <<>>]
\* a DataFrame returned
Returned(rows) == [kind |-> "df", exc |-> "", msg |-> "", rows |-> rows]
\* an exception raised
Raised(exc, msg) == [kind |-> "error", exc |-> exc, msg |-> msg, rows |-> <<>>]

XlrdMessage == "Missing dependency: xlrd library is required to read .xls files. Please install it using: pip install xlrd"

\* 'xlrd' in str(e)
MentionsXlrd(e) == e.msg = XlrdMessage

\* The engine selection and pd.read_excel call shared by merge_excel_files and
\* process_excel: the .xls branch turns pandas' ImportError into one that names
\* xlrd; in the other branches whatever pandas raises propagates.
read_excel(file) ==
    IF file.load = "ok" THEN Returned(file.rows)
    ELSE IF file.load = "no_reader"
         THEN IF EndsWith(Lower(file.filename), ext_xls)
              THEN Raised("ImportError", XlrdMessage)
              ELSE Raised("ImportError", "Missing optional dependency 'openpyxl'")
         ELSE Raised("ValueError", "Excel file format cannot be determined")

----------------------------------------------------------------------------
(* merge_excel_files *)

\* the number of str cells of the row that contain a merge header keyword
header_count(first_row) ==
    Cardinality({ j \in DOMAIN first_row.cells :
        /\ isstr(first_row.cells[j])
        /\ \E n \in DOMAIN merge_header_keywords :
              Contains(Lower(first_row.cells[j].v), merge_header_keywords[n]) })

is_header_mut(first_row) == header_count(first_row) > 2

\* if header_count > 3: is_header = True
is_header(first_row) == header_count(first_row) > 3

\* df.iloc[1:] when the first row is a header, else df
data_to_append(rows) == IF is_header(rows[1]) THEN Tail(rows) ELSE rows

\* The body of the loop over sorted_files for the file at position i (from 0):
\* the frames collected so far and the exception that leaves the loop, if any.
merge_file_mut(merged, pos, file) ==
    LET r == read_excel(file)
    IN  IF r.kind = "error"
        THEN IF r.exc = "ImportError"
             THEN [merged |-> merged, raised |-> r]
             ELSE [merged |-> merged, raised |-> NoResult]
        ELSE IF pos = 0
             THEN [merged |-> Append(merged, r.rows), raised |-> NoResult]
             ELSE IF Len(r.rows) > 0
                  THEN [merged |-> Append(merged, data_to_append(r.rows)), raised |-> NoResult]
                  ELSE [merged |-> merged, raised |-> NoResult]

merge_file(merged, pos, file) ==
    LET r == read_excel(file)
    IN  IF r.kind = "error"
        THEN [merged |-> merged, raised |-> NoResult]   \* except Exception: continue
        ELSE IF pos = 0
             THEN [merged |-> Append(merged, r.rows), raised |-> NoResult]
             ELSE IF Len(r.rows) > 0
                  THEN [merged |-> Append(merged, data_to_append(r.rows)), raised |-> NoResult]
                  ELSE [merged |-> merged, raised |-> NoResult]

\* pd.concat with the frames taken last to first
RECURSIVE concat_reversed(_)
concat_reversed(frames) ==
    IF frames = <<>> THEN <<>> ELSE concat_reversed(Tail(frames)) \o Head(frames)

\* pd.concat(merged_data, ignore_index=True): the rows of the frames, in order
RECURSIVE concat(_)
concat(frames) == IF frames = <<>> THEN <<>> ELSE Head(frames) \o concat(Tail(frames))

----------------------------------------------------------------------------
(* Column lookup of the converters *)

\* the position (from 1) of the column named name, 0 when there is none
col_index(cols, name) ==
    IF \E j \in DOMAIN cols : cols[j] = name
    THEN CHOOSE j \in DOMAIN cols : cols[j] = name /\ \A m \in 1..(j - 1) : cols[m] # name
    ELSE 0

\* the cell of the row at column position j; None for an unmapped field
cell_at(row, j) == IF j \in DOMAIN row.cells THEN row.cells[j] ELSE None

\* the last column (from 1) that the elif chain assigns to key, 0 when none
last_assigned(cols, branch(_), key) ==
    LET hits == { j \in DOMAIN cols : branch(Lower(cols[j])) = key }
    IN  IF hits = {} THEN 0 ELSE CHOOSE j \in hits : \A m \in hits : m <= j

rodtep_scroll_keys ==
    {"sb_number", "sb_date", "scroll_number", "scroll_date", "location", "amount"}

\* convert_rodtep_scroll: the if/elif chain applied to one lower-cased column name
rodtep_scroll_branch(col_lower) ==
    IF Contains(col_lower, t_sb_number) \/ Contains(col_lower, t_shipping_bill) THEN "sb_number"
    ELSE IF Contains(col_lower, t_sb_date) \/ Contains(col_lower, t_shipping_bill_date) THEN "sb_date"
    ELSE IF Contains(col_lower, t_scroll_number) THEN "scroll_number"
    ELSE IF Contains(col_lower, t_scroll_date) THEN "scroll_date"
    ELSE IF Contains(col_lower, t_location) THEN "location"
    ELSE IF Contains(col_lower, t_sanctioned) \/ Contains(col_lower, t_amount) THEN "amount"
    ELSE ""

\* convert_rodtep_scroll: column_map, as column positions from 1 (0: not mapped)
rodtep_scroll_column_map(cols) ==
    LET by_name == [key \in rodtep_scroll_keys |-> last_assigned(cols, rodtep_scroll_branch, key)]
    IN  IF \A key \in rodtep_scroll_keys : by_name[key] = 0
        THEN IF Len(cols) >= 7
             THEN [sb_number |-> 1, sb_date |-> 2, scroll_number |-> 3,
                   scroll_date |-> 4, location |-> 6, amount |-> 7]
             ELSE by_name
        ELSE by_name

rodtep_scrip_keys ==
    {"scrip_no", "scrip_issue_date", "scrip_exp_date", "scrip_issued_amount",
     "scrip_balance", "scrip_transfer_date", "scrip_status", "scroll_number", "sb_number"}

\* convert_rodtep_scrip: the if/elif chain applied to one lower-cased column name
rodtep_scrip_branch(col_lower) ==
    IF Contains(col_lower, t_scrip_no) THEN "scrip_no"
    ELSE IF Contains(col_lower, t_scrip_issue_date) THEN "scrip_issue_date"
    ELSE IF Contains(col_lower, t_scrip_exp_date) \/ Contains(col_lower, t_scrip_expiry_date) THEN "scrip_exp_date"
    ELSE IF Contains(col_lower, t_scrip_issued_amount) THEN "scrip_issued_amount"
    ELSE IF Contains(col_lower, t_scrip_balance) THEN "scrip_balance"
    ELSE IF Contains(col_lower, t_scrip_transfer_date) THEN "scrip_transfer_date"
    ELSE IF Contains(col_lower, t_scrip_status) THEN "scrip_status"
    ELSE IF Contains(col_lower, t_scroll_number) THEN "scroll_number"
    ELSE IF Contains(col_lower, t_sb_number) \/ Contains(col_lower, t_shipping_bill) THEN "sb_number"
    ELSE ""

\* convert_rodtep_scrip: column_map, as column positions from 1 (0: not mapped)
rodtep_scrip_column_map(cols) ==
    LET by_name == [key \in rodtep_scrip_keys |-> last_assigned(cols, rodtep_scrip_branch, key)]
    IN  IF \A key \in rodtep_scrip_keys : by_name[key] = 0
        THEN IF Len(cols) >= 9
             THEN [scrip_no |-> 1, scrip_issue_date |-> 2, scrip_exp_date |-> 3,
                   scrip_issued_amount |-> 4, scrip_balance |-> 5,
                   scrip_transfer_date |-> 6, scrip_status |-> 7,
                   scroll_number |-> 8, sb_number |-> 9]
             ELSE by_name
        ELSE by_name

\* convert_brc: expected_columns, the header text expected for each field
brc_expected_columns ==
    [ brc_number |-> <<"B","R","C"," ","N","u","m","b","e","r">>,
      brc_date |-> <<"B","R","C"," ","D","a","t","e">>,
      brc_status |-> <<"B","R","C"," ","S","t","a","t","u","s">>,
      invoice_number |-> <<"I","n","v","o","i","c","e"," ","N","u","m","b","e","r">>,
      sb_number |-> <<"S","B"," ","N","U","M","B","E","R">>,
      port_code |-> <<"P","O","R","T"," ","C","O","D","E">>,
      sb_date |-> <<"S","B"," ","D","a","t","e">>,
      realised_value |-> <<"R","E","A","L","I","S","E","D"," ","V","A","L","U","E">>,
      currency |-> <<"C","U","R","R","E","N","C","Y">>,
      realization_date |-> <<"R","E","A","L","I","Z","A","T","I","O","N","_","D","A","T","E">>,
      brc_utilisation |-> <<"B","R","C"," ","U","t","l","i","s","a","t","i","o","n"," ","S","t","a","t","u","s">> ]
t_port == <<"p","o","r","t">>

brc_fields == DOMAIN brc_expected_columns

\* convert_brc: other_mappings and the default port column, as positions from 0
brc_default_position ==
    [ brc_number |-> 0, brc_date |-> 1, brc_status |-> 2, invoice_number |-> 7,
      sb_number |-> 4, port_code |-> 6, sb_date |-> 5, realised_value |-> 25,
      currency |-> 26, realization_date |-> 24, brc_utilisation |-> 22 ]

\* the first column (from 1) whose lower-cased name contains text, 0 when none
first_containing(cols, text) ==
    LET hits == { j \in DOMAIN cols : Contains(Lower(cols[j]), text) }
    IN  IF hits = {} THEN 0 ELSE CHOOSE j \in hits : \A m \in hits : j <= m

\* convert_brc: the column of one field after the exact pass, the
\* case-insensitive pass, the port pass and the positional pass; positions
\* from 1, 0: not mapped
brc_column_index(cols, f) ==
    LET exact == col_index(cols, brc_expected_columns[f])
        second == IF exact # 0 THEN exact
                  ELSE first_containing(cols, Lower(brc_expected_columns[f]))
        third == IF f = "port_code" /\ second = 0
                 THEN first_containing(cols, t_port)
                 ELSE second
    IN  IF third # 0 THEN third
        ELSE IF brc_default_position[f] < Len(cols)
             THEN brc_default_position[f] + 1
             ELSE 0

\* convert_brc: column_indices
brc_column_indices(cols) == [f \in brc_fields |-> brc_column_index(cols, f)]

----------------------------------------------------------------------------
(* The per-row body of the converters *)

\* row.isna().all()
all_na(row) == \A j \in DOMAIN row.cells : isna(row.cells[j])

\* some str cell of the row contains one of the keywords
any_keyword_cell(row, keywords) ==
    \E j \in DOMAIN row.cells :
        /\ isstr(row.cells[j])
        /\ \E n \in DOMAIN keywords : Contains(Lower(row.cells[j].v), keywords[n])

\* convert_brc.get_value: the cell, '' in place of NaN or of an unmapped column
get_value(cell) == IF isna(cell) THEN Str(<<>>) ELSE cell

\* What the loop body does with the row at position idx (from 0) of the table:
\* "emit", or the reason no row is emitted.
dbk_row(row) == IF row.raises THEN "error" ELSE "emit"

brc_row(cols, row) ==
    IF all_na(row) THEN "skip_blank"
    ELSE IF any_keyword_cell(row, brc_header_keywords) THEN "skip_header"
    ELSE IF row.raises THEN "error"
    ELSE IF /\ isna(get_value(cell_at(row, brc_column_indices(cols).brc_number)))
            /\ isna(get_value(cell_at(row, brc_column_indices(cols).sb_number)))
         THEN "skip_nodata"
    ELSE "emit"

igst_scroll_row(cols, row) ==
    LET shipping_bill_no == cell_at(row, col_index(cols, col_Shipping_Bill_No))
        igst_scroll_no == cell_at(row, col_index(cols, col_IGST_Scroll_No))
        absent(c) == isna(c) \/ (isstr(c) /\ c.v = <<>>)
    IN  IF all_na(row) THEN "skip_blank"
        ELSE IF row.raises THEN "error"
        ELSE IF isstr(shipping_bill_no) /\ Contains(shipping_bill_no.v, col_Shipping_Bill_No)
             THEN "skip_header"
        ELSE IF absent(shipping_bill_no) /\ absent(igst_scroll_no) THEN "skip_nodata"
        ELSE "emit"

rodtep_scroll_row(cols, idx, row) ==
    LET column_map == rodtep_scroll_column_map(cols)
    IN  IF all_na(row) THEN "skip_blank"
        ELSE IF idx = 0 /\ any_keyword_cell(row, rodtep_scroll_header_keywords) THEN "skip_header"
        ELSE IF row.raises THEN "error"
        ELSE IF /\ isna(cell_at(row, column_map.sb_number))
                /\ isna(cell_at(row, column_map.scroll_number))
             THEN "skip_nodata"
        ELSE "emit"

rodtep_scrip_row(cols, idx, row) ==
    LET column_map == rodtep_scrip_column_map(cols)
    IN  IF all_na(row) THEN "skip_blank"
        ELSE IF idx = 0 /\ any_keyword_cell(row, rodtep_scrip_header_keywords) THEN "skip_header"
        ELSE IF row.raises THEN "error"
        ELSE IF /\ isna(cell_at(row, column_map.scrip_no))
                /\ isna(cell_at(row, column_map.scroll_number))
                /\ isna(cell_at(row, column_map.sb_number))
             THEN "skip_nodata"
        ELSE "emit"

row_outcome(proc, cols, idx, row) ==
    CASE proc \in {"dbk_disbursement", "dbk_pendency"} -> dbk_row(row)
      [] proc = "brc" -> brc_row(cols, row)
      [] proc = "igst_scroll" -> igst_scroll_row(cols, row)
      [] proc = "rodtep_scroll" -> rodtep_scroll_row(cols, idx, row)
      [] proc = "rodtep_scrip" -> rodtep_scrip_row(cols, idx, row)

\* the converters whose output rows carry a serial-number column
SerialProcessTypes ==
    {"dbk_disbursement", "dbk_pendency", "igst_scroll", "rodtep_scroll", "rodtep_scrip"}

\* A row of an output DataFrame: a header-block row (text: its first cell), a
\* converted data row (sno: its serial number, 0 for convert_brc, whose output
\* has no serial column; cells: the input cells it was made from) or an input
\* row passed through unconverted.
HeaderRow(text) == [kind |-> "header", text |-> text, sno |-> 0, cells |-> <<>>]
DataRow(sno, cells) == [kind |-> "data", text |-> "", sno |-> sno, cells |-> cells]
RawRow(cells) == [kind |-> "raw", text |-> "", sno |-> 0, cells |-> cells]

\* new_row = {...}
new_row(proc, serial, row) ==
    DataRow(IF proc \in SerialProcessTypes THEN serial ELSE 0, row.cells)

serial_after_mut(outcome, serial) ==
    IF outcome \in {"emit", "skip_nodata"} THEN serial + 1 ELSE serial

\* serial_number += 1 follows result_data.append(new_row) and nothing else
serial_after(outcome, serial) ==
    IF outcome = "emit" THEN serial + 1 ELSE serial

\* row_step with a failing row appended like an emitted one
row_step_keep_failed(proc, cols, idx, row, st) ==
    LET outcome == row_outcome(proc, cols, idx, row)
    IN  [serial_number |-> serial_after(outcome, st.serial_number),
         result_data |-> IF outcome \in {"emit", "error"}
                         THEN Append(st.result_data, new_row(proc, st.serial_number, row))
                         ELSE st.result_data]

\* One iteration of "for index, row in df.iterrows()": st holds serial_number
\* and result_data. An exception leaves both as they were (except: continue).
row_step(proc, cols, idx, row, st) ==
    LET outcome == row_outcome(proc, cols, idx, row)
    IN  [serial_number |-> serial_after(outcome, st.serial_number),
         result_data |-> IF outcome = "emit"
                         THEN Append(st.result_data, new_row(proc, st.serial_number, row))
                         ELSE st.result_data]

\* the literal header block of a converter, by the first cell of each row
header_block(proc) ==
    CASE proc = "dbk_disbursement" ->
            <<"IEC Name - Alfa",
              "Report Generated From - 2021/01/01To2021/06/30",
              "Report Generated On - 16/02/2022 12:58:50",
              "S No.">>
      [] proc = "dbk_pendency" ->
            <<"IEC Name-Alfa",
              "Location Name-All Locations",
              "Report Generated From-2021/07/01To2021/11/30",
              "Report Generated On-16/02/2022 12:48:50",
              "S No.">>
      [] proc = "brc" -> <<"", "", "BRC Number">>
      [] proc = "igst_scroll" ->
            <<"IEC Name  -  ALFA",
              "Location Name  -  NHAVA SHEVA SEA (INNSA1)",
              "Report Generated From -  2024/01/01  To  2024/06/30",
              "Report Generated On  -  30/07/2024 15:05:26",
              "S No.",
              "">>
      [] proc = "rodtep_scroll" -> <<"", "", "Sr. No.">>
      [] proc = "rodtep_scrip" -> <<"", "", "Sr. No">>
      [] OTHER -> <<>>                                    \* convert_irm builds none

header_rows(proc) ==
    [n \in DOMAIN header_block(proc) |-> HeaderRow(header_block(proc)[n])]

\* pd.concat([header_rows, result_df], ignore_index=True)
final_df(proc, data) == header_rows(proc) \o data

raw_rows(rows) == [n \in DOMAIN rows |-> RawRow(rows[n].cells)]

\* The rows of a whole converter loop over rows, from position idx on.
RECURSIVE convert_rows(_, _, _, _, _)
convert_rows(proc, cols, rows, idx, st) ==
    IF idx >= Len(rows) THEN st.result_data
    ELSE convert_rows(proc, cols, rows, idx + 1, row_step(proc, cols, idx, rows[idx + 1], st))

----------------------------------------------------------------------------
(* Reference port codes: load_port_code_mapping, get_port_code *)

\* the length of the longest prefix of s whose characters all satisfy P
PrefixLen(s, P(_)) ==
    CHOOSE n \in 0..Len(s) :
        /\ \A j \in 1..n : P(s[j])
        /\ n = Len(s) \/ ~P(s[n + 1])

\* re.findall(r'\b\w+\b', s): the maximal runs of word characters, in order
RECURSIVE Words(_)
Words(s) ==
    IF s = <<>> THEN <<>>
    ELSE IF ~IsWordCh(Head(s)) THEN Words(Tail(s))
    ELSE LET n == PrefixLen(s, IsWordCh)
         IN  <<SubSeq(s, 1, n)>> \o Words(SubSeq(s, n + 1, Len(s)))

\* s[a..a+5] is a match of \b(\d{6})\b
IsPinAt(s, a) ==
    /\ a >= 1 /\ a + 5 <= Len(s)
    /\ AllDigits(SubSeq(s, a, a + 5))
    /\ a = 1 \/ ~IsWordCh(s[a - 1])
    /\ a + 5 = Len(s) \/ ~IsWordCh(s[a + 6])

\* re.findall(r'\b(\d{6})\b', s), from position a on
RECURSIVE pin_codes_from(_, _)
pin_codes_from(s, a) ==
    IF a > Len(s) THEN <<>>
    ELSE IF IsPinAt(s, a) THEN <<SubSeq(s, a, a + 5)>> \o pin_codes_from(s, a + 6)
    ELSE pin_codes_from(s, a + 1)

pin_codes(s) == pin_codes_from(s, 1)

\* A dict in insertion order: a sequence of entries with distinct keys.
has_key(m, key) == \E n \in DOMAIN m : m[n].key = key
value_of(m, key) == m[CHOOSE n \in DOMAIN m : m[n].key = key].code
\* put with a key already present keeping the value it has
put_absent(m, key, code) ==
    IF has_key(m, key) THEN m ELSE Append(m, [key |-> key, code |-> code])

\* m[key] = code: a key already present keeps its place and gets the new value
put(m, key, code) ==
    IF has_key(m, key)
    THEN [n \in DOMAIN m |-> IF m[n].key = key THEN [key |-> key, code |-> code] ELSE m[n]]
    ELSE Append(m, [key |-> key, code |-> code])

\* for pin in pin_codes: port_mapping[pin] = location_code_str
RECURSIVE put_all(_, _, _)
put_all(m, keys, code) ==
    IF keys = <<>> THEN m
    ELSE put_all(put(m, Head(keys), code), Tail(keys), code)

prefixes_to_remove ==
    << <<"C","U","S","T","O","M"," ","H","O","U","S","E">>,
       <<"C","U","S","T","O","M","S"," ","H","O","U","S","E">>,
       <<"S","E","A","P","O","R","T">>,
       <<"P","O","R","T">>,
       <<"A","I","R"," ","C","A","R","G","O"," ","C","O","M","P","L","E","X">>,
       <<"A","C","C">>,
       <<"I","C","D">>,
       <<"L","C","S">>,
       <<"L","A","N","D"," ","C","U","S","T","O","M","S"," ","S","T","A","T","I","O","N">> >>

IsCommaOrSpace(c) == c = "," \/ IsSpace(c)

\* re.sub(f'{prefix}[,\\s]*', '', s, flags=re.IGNORECASE)
RECURSIVE remove_prefix(_, _)
remove_prefix(s, prefix) ==
    IF s = <<>> THEN <<>>
    ELSE IF Len(prefix) <= Len(s) /\ Upper(SubSeq(s, 1, Len(prefix))) = prefix
         THEN LET rest == SubSeq(s, Len(prefix) + 1, Len(s))
                  n == PrefixLen(rest, IsCommaOrSpace)
              IN  remove_prefix(SubSeq(rest, n + 1, Len(rest)), prefix)
         ELSE <<Head(s)>> \o remove_prefix(Tail(s), prefix)

\* for prefix in prefixes_to_remove: if prefix in clean_name.upper(): ...
RECURSIVE clean_name_from(_, _)
clean_name_from(name, k) ==
    IF k > Len(prefixes_to_remove) THEN name
    ELSE clean_name_from(IF Contains(Upper(name), prefixes_to_remove[k])
                         THEN Strip(remove_prefix(name, prefixes_to_remove[k]))
                         ELSE name,
                         k + 1)

IsNameSeparator(c) == c \in {",", "-"} \/ IsSpace(c)
IsNoNameSeparator(c) == ~IsNameSeparator(c)

\* re.split(r'[,\s-]+', s)
RECURSIVE split_name(_)
split_name(s) ==
    LET n == PrefixLen(s, IsNoNameSeparator)
    IN  IF n = Len(s) THEN <<s>>
        ELSE LET rest == SubSeq(s, n + 1, Len(s))
                 m == PrefixLen(rest, IsNameSeparator)
             IN  <<SubSeq(s, 1, n)>> \o split_name(SubSeq(rest, m + 1, Len(rest)))

\* ''.join([w[0].upper() for w in words if w and len(w) > 2])
RECURSIVE short_form(_)
short_form(words) ==
    IF words = <<>> THEN <<>>
    ELSE (IF Len(Head(words)) > 2 THEN <<UpperCh(Head(words)[1])>> ELSE <<>>)
         \o short_form(Tail(words))

\* re.sub(r'\s+', ' ', s)
RECURSIVE collapse_spaces(_)
collapse_spaces(s) ==
    IF s = <<>> THEN <<>>
    ELSE IF IsSpace(Head(s))
         THEN LET n == PrefixLen(s, IsSpace)
              IN  <<" ">> \o collapse_spaces(SubSeq(s, n + 1, Len(s)))
         ELSE <<Head(s)>> \o collapse_spaces(Tail(s))

\* re.sub(r'[^\w\s-]', ' ', s), then the blanks collapsed and stripped
no_special(s) ==
    Strip(collapse_spaces(
        [k \in DOMAIN s |-> IF IsWordCh(s[k]) \/ IsSpace(s[k]) \/ s[k] = "-" THEN s[k] ELSE " "]))

\* port_df.columns of "Port Code List.xlsx", as read
port_file_columns ==
    << <<"S","l"," ","n","o">>,
       <<"L","o","c","a","t","i","o","n","\n","C","o","d","e">>,
       <<"T","y","p","e">>,
       <<"L","o","c","a","t","i","o","n"," ","N","a","m","e">>,
       <<"S","t","a","t","e">> >>

\* col.replace('\n', ' ').strip()
clean_column(col) == Strip([k \in DOMAIN col |-> IF col[k] = "\n" THEN " " ELSE col[k]])

port_columns == [n \in DOMAIN port_file_columns |-> clean_column(port_file_columns[n])]

t_code == <<"c","o","d","e">>
t_name == <<"n","a","m","e">>
t_state == <<"s","t","a","t","e">>

\* the branch of the if/elif chain a column header takes
port_column_branch(col) ==
    LET col_lower == Lower(col)
    IN  IF Contains(col_lower, t_code) /\ Contains(col_lower, t_location) THEN "code"
        ELSE IF Contains(col_lower, t_name) /\ Contains(col_lower, t_location) THEN "name"
        ELSE IF Contains(col_lower, t_state) THEN "state"
        ELSE "none"

\* location_code_col, location_name_col, state_col: the last header taking the
\* branch, else the positional column, else 0 (None)
port_column(branch, position) ==
    LET hits == { n \in DOMAIN port_columns : port_column_branch(port_columns[n]) = branch }
    IN  IF hits # {} THEN CHOOSE n \in hits : \A o \in hits : o <= n
        ELSE IF Len(port_columns) >= position THEN position
        ELSE 0

location_code_col == port_column("code", 2)
location_name_col == port_column("name", 4)
state_col == port_column("state", 5)

\* the aliases one row of the reference table adds, in the order of the code
add_port_row(m, row) ==
    LET location_code == IF location_code_col = 0 THEN None ELSE row[location_code_col]
        location_name == IF location_name_col = 0 THEN None ELSE row[location_name_col]
    IN  IF isna(location_code) \/ isna(location_name) THEN m
        ELSE LET location_code_str == Strip(location_code.v)
                 location_name_str == Strip(location_name.v)
                 state == IF state_col = 0 \/ isna(row[state_col]) THEN <<>>
                          ELSE Strip(row[state_col].v)
                 pins == pin_codes(location_name_str)
                 clean_name == clean_name_from(location_name_str, 1)
                 words == split_name(clean_name)
                 acronym == short_form(words)
                 plain == no_special(location_name_str)
                 m1 == put(m, location_name_str, location_code_str)
                 m2 == IF state # <<>>
                       THEN put(m1, location_name_str \o <<" ", "-", " ">> \o state,
                                location_code_str)
                       ELSE m1
                 m3 == put_all(m2, pins, location_code_str)
                 m4 == IF clean_name # <<>> /\ clean_name # location_name_str
                       THEN put(m3, clean_name, location_code_str)
                       ELSE m3
                 m5 == IF Len(words) > 1 /\ acronym # <<>>
                       THEN put(m4, acronym, location_code_str)
                       ELSE m4
             IN  IF plain # <<>> /\ plain # location_name_str
                 THEN put(m5, plain, location_code_str)
                 ELSE m5

\* load_port_code_mapping: for _, row in port_df.iterrows()
RECURSIVE load_port_code_mapping(_)
load_port_code_mapping(rows) ==
    IF rows = <<>> THEN <<>>
    ELSE add_port_row(load_port_code_mapping(SubSeq(rows, 1, Len(rows) - 1)), rows[Len(rows)])

\* len(s) == 6 and s.isalnum() and s[:2].isalpha() and s[2:].isalnum()
is_code_shape(s) ==
    /\ Len(s) = 6
    /\ \A k \in DOMAIN s : IsAlnum(s[k])
    /\ IsAlpha(s[1]) /\ IsAlpha(s[2])

common_keywords ==
    << <<<<"N","H","A","V","A"," ","S","H","E","V","A">>,
         <<"I","N","N","S","A","1">>>>,
       <<<<"J","N","C","H">>,
         <<"I","N","N","S","A","1">>>>,
       <<<<"S","A","H","A","R"," ","A","N","D","H","E","R","I">>,
         <<"I","N","B","O","M","4">>>>,
       <<<<"S","A","H","A","R",","," ","A","N","D","H","E","R","I">>,
         <<"I","N","B","O","M","4">>>>,
       <<<<"M","U","M","B","A","I"," ","A","I","R","P","O","R","T">>,
         <<"I","N","B","O","M","4">>>>,
       <<<<"A","I","R"," ","C","A","R","G","O"," ","S","A","H","A","R">>,
         <<"I","N","B","O","M","4">>>>,
       <<<<"4","0","0","7","0","7">>,
         <<"I","N","N","S","A","1">>>>,
       <<<<"4","0","0","0","9","9">>,
         <<"I","N","B","O","M","4">>>> >>

fuzzy_matches ==
    << <<<<"J","N","C","H",","," ","N","H","A","V","A"," ","S","H","E","V","A">>,
         <<"I","N","N","S","A","1">>>>,
       <<<<"N","H","A","V","A"," ","S","H","E","V","A"," ","P","O","R","T">>,
         <<"I","N","N","S","A","1">>>>,
       <<<<"S","A","H","A","R"," ","A","I","R"," ","C","A","R","G","O">>,
         <<"I","N","B","O","M","4">>>>,
       <<<<"A","N","D","H","E","R","I"," ","A","I","R"," ","C","A","R","G","O">>,
         <<"I","N","B","O","M","4">>>>,
       <<<<"M","U","M","B","A","I"," ","S","A","H","A","R">>,
         <<"I","N","B","O","M","4">>>> >>

\* for keyword, code in table.items(): if keyword in port_clean: return code
first_keyword(table, port_clean) ==
    LET hits == { n \in DOMAIN table : Contains(port_clean, table[n][1]) }
    IN  IF hits = {} THEN <<>>
        ELSE table[CHOOSE n \in hits : \A o \in hits : n <= o][2]

\* match_score with 10 for every shared word
match_score_ten(port_clean_lower, map_key_lower) ==
    LET substring == IF \/ Contains(port_clean_lower, map_key_lower)
                        \/ Contains(map_key_lower, port_clean_lower)
                     THEN 100 ELSE 0
        common_words == Range(Words(port_clean_lower)) \cap Range(Words(map_key_lower))
        by_words == Cardinality(common_words) * 10
    IN  IF common_words # {} /\ by_words > substring THEN by_words ELSE substring

\* the score of one alias against the query
match_score(port_clean_lower, map_key_lower) ==
    LET substring == IF \/ Contains(port_clean_lower, map_key_lower)
                        \/ Contains(map_key_lower, port_clean_lower)
                     THEN 100 ELSE 0
        common_words == Range(Words(port_clean_lower)) \cap Range(Words(map_key_lower))
        by_words == Cardinality(common_words) * 20
    IN  IF common_words # {} /\ by_words > substring THEN by_words ELSE substring

\* for map_key, map_code in port_mapping.items(): the first alias of the
\* greatest score is kept
RECURSIVE best_match(_, _, _, _)
best_match(m, n, port_clean_lower, best) ==
    IF n > Len(m) THEN best
    ELSE LET score == match_score(port_clean_lower, Lower(m[n].key))
         IN  best_match(m, n + 1, port_clean_lower,
                        IF score > best.score
                        THEN [code |-> m[n].code, score |-> score]
                        ELSE best)

\* ''.join([w[0].upper() for w in re.findall(r'\b\w+\b', port_clean) if w])
port_acronym(port_clean) ==
    LET words == Words(port_clean)
    IN  [n \in DOMAIN words |-> UpperCh(words[n][1])]

\* s[a..a+5] is a match of \b([A-Z]{2}\d{4}|[A-Z]{2}\d{3}[A-Z]|[A-Z]{6})\b
IsCodeAt(s, a) ==
    /\ a >= 1 /\ a + 5 <= Len(s)
    /\ IsUpper(s[a]) /\ IsUpper(s[a + 1])
    /\ \/ \A k \in 2..5 : IsDigit(s[a + k])
       \/ (\A k \in 2..4 : IsDigit(s[a + k])) /\ IsUpper(s[a + 5])
       \/ \A k \in 2..5 : IsUpper(s[a + k])
    /\ a = 1 \/ ~IsWordCh(s[a - 1])
    /\ a + 5 = Len(s) \/ ~IsWordCh(s[a + 6])

\* resolve_partial with the keyword table consulted before the PIN
resolve_partial_keyword_first(port_str, m) ==
    LET port_clean == Upper(port_str)
        pins == pin_codes(port_clean)
        keyword_code == first_keyword(common_keywords, port_clean)
        best == best_match(m, 1, Lower(port_str), [code |-> <<>>, score |-> 0])
        acronym == port_acronym(port_clean)
        fuzzy_code == first_keyword(fuzzy_matches, port_clean)
        code_starts == { a \in DOMAIN port_clean : IsCodeAt(port_clean, a) }
    IN  IF keyword_code # <<>> THEN keyword_code
        ELSE IF pins # <<>> /\ has_key(m, pins[1]) THEN value_of(m, pins[1])
        ELSE IF best.code # <<>> /\ best.score > 30 THEN best.code
        ELSE IF acronym # <<>> /\ has_key(m, acronym) THEN value_of(m, acronym)
        ELSE IF fuzzy_code # <<>> THEN fuzzy_code
        ELSE IF code_starts # {}
             THEN LET a == CHOOSE x \in code_starts : \A y \in code_starts : x <= y
                  IN  SubSeq(port_clean, a, a + 5)
        ELSE port_str

\* get_port_code from the PIN search on: the steps after the exact match
resolve_partial(port_str, m) ==
    LET port_clean == Upper(port_str)
        pins == pin_codes(port_clean)
        keyword_code == first_keyword(common_keywords, port_clean)
        best == best_match(m, 1, Lower(port_str), [code |-> <<>>, score |-> 0])
        acronym == port_acronym(port_clean)
        fuzzy_code == first_keyword(fuzzy_matches, port_clean)
        code_starts == { a \in DOMAIN port_clean : IsCodeAt(port_clean, a) }
    IN  IF pins # <<>> /\ has_key(m, pins[1]) THEN value_of(m, pins[1])
        ELSE IF keyword_code # <<>> THEN keyword_code
        ELSE IF best.code # <<>> /\ best.score > 30 THEN best.code
        ELSE IF acronym # <<>> /\ has_key(m, acronym) THEN value_of(m, acronym)
        ELSE IF fuzzy_code # <<>> THEN fuzzy_code
        ELSE IF code_starts # {}
             THEN LET a == CHOOSE x \in code_starts : \A y \in code_starts : x <= y
                  IN  SubSeq(port_clean, a, a + 5)
        ELSE port_str

\* not port_name or pd.isna(port_name): None, NaN, '' and the number 0
no_port_name(query) ==
    \/ isna(query)
    \/ isstr(query) /\ query.v = <<>>
    \/ query.k = "num" /\ DigitsToInt(query.v) = 0

\* get_port_code with the upper-cased text returned when nothing matches
get_port_code_upper(query, m) ==
    IF no_port_name(query) THEN <<>>
    ELSE LET port_str == Strip(query.v)
         IN  IF port_str = <<>> THEN <<>>
             ELSE IF is_code_shape(port_str) THEN port_str
             ELSE IF has_key(m, port_str) THEN value_of(m, port_str)
             ELSE IF resolve_partial(port_str, m) = port_str THEN Upper(port_str)
             ELSE resolve_partial(port_str, m)

\* get_port_code with the exact match left out
get_port_code_no_exact(query, m) ==
    IF no_port_name(query) THEN <<>>
    ELSE LET port_str == Strip(query.v)
         IN  IF port_str = <<>> THEN <<>>
             ELSE IF is_code_shape(port_str) THEN port_str
             ELSE resolve_partial(port_str, m)

\* get_port_code with the exact match tried before the test of the code shape
get_port_code_exact_first(query, m) ==
    IF no_port_name(query) THEN <<>>
    ELSE LET port_str == Strip(query.v)
         IN  IF port_str = <<>> THEN <<>>
             ELSE IF has_key(m, port_str) THEN value_of(m, port_str)
             ELSE IF is_code_shape(port_str) THEN port_str
             ELSE resolve_partial(port_str, m)

\* get_port_code(port_name, port_mapping); query is port_name
get_port_code(query, m) ==
    IF no_port_name(query) THEN <<>>
    ELSE LET port_str == Strip(query.v)
         IN  IF port_str = <<>> THEN <<>>
             ELSE IF is_code_shape(port_str) THEN port_str
             ELSE IF has_key(m, port_str) THEN value_of(m, port_str)
             ELSE resolve_partial(port_str, m)

\* a row of "Port Code List.xlsx": Sl no, Location Code, Type, Location Name, State
PortRow(code, name, state) == <<NaN, code, NaN, name, state>>

r_nhava ==
    PortRow(Str(<<"I","N","N","S","A","1">>),
            Str(<<"N","H","A","V","A"," ","S","H","E","V","A">>),
            Str(<<"M","A","H","A","R","A","S","H","T","R","A">>))
r_kandla ==
    PortRow(Str(<<"I","N","I","X","Y","1">>),
            Str(<<"K","A","N","D","L","A">>),
            Str(<<"G","U","J","A","R","A","T">>))
r_mundra ==
    PortRow(Str(<<"I","N","M","U","N","1">>),
            Str(<<"M","U","N","D","R","A"," ","P","O","R","T">>),
            NaN)
r_sahar ==
    PortRow(Str(<<"I","N","B","O","M","4">>),
            Str(<<"A","C","C"," ","S","A","H","A","R",","," ","A","N","D","H","E","R","I"," ","4","0","0","0","9","9">>),
            NaN)
r_kandla_sez ==
    PortRow(Str(<<"I","N","K","D","L","6">>),
            Str(<<"K","A","N","D","L","A"," ","S","E","Z">>),
            NaN)
r_blank_name ==
    PortRow(Str(<<"I","N","M","R","M","1">>),
            Str(<<" ">>),
            Str(<<"G","O","A">>))
r_no_code ==
    PortRow(NaN,
            Str(<<"T","U","T","I","C","O","R","I","N">>),
            NaN)
r_goa ==
    PortRow(Str(<<"I","N","G","O","I","4">>),
            Str(<<"G","O","A">>),
            NaN)
r_delhi ==
    PortRow(Str(<<"I","N","D","E","L","4">>),
            Str(<<"D","E","L","H","I"," ","1","1","0","0","3","7">>),
            NaN)

r_dry_dock ==
    PortRow(Str(<<"I","N","O","S","D","6">>),
            Str(<<"O","L","D"," ","S","E","A"," ","D","R","Y"," ","D","O","C","K"," ","T","W","O"," ","E","A","S","T">>),
            NaN)

r_mundra_sez ==
    PortRow(Str(<<"I","N","A","J","M","6">>),
            Str(<<"M","U","N","D","R","A">>),
            NaN)

PortRowPool ==
    { r_nhava, r_kandla, r_mundra, r_sahar, r_kandla_sez, r_blank_name, r_no_code, r_goa,
      r_delhi, r_dry_dock, r_mundra_sez }

\* "Port Code List.xlsx" as it lies beside the application during a request
BrcPortTable == <<r_nhava, r_sahar>>

\* as load_port_file, but the aliases of a default table stand in for an absent file
load_port_file_default(file, rows) ==
    IF file = "absent" THEN load_port_code_mapping(<<r_kandla, r_goa>>) ELSE load_port_code_mapping(rows)

\* load_port_code_mapping(): an absent file gives the empty dict
load_port_file(file, rows) ==
    IF file = "absent" THEN <<>> ELSE load_port_code_mapping(rows)

\* convert_brc: port_name = get_value('port_code')
brc_port_name(cols, row) == get_value(cell_at(row, brc_column_indices(cols).port_code))

\* convert_brc: port_code_clean = get_port_code(port_name, port_mapping)
port_code_clean(cols, row, m) == get_port_code(brc_port_name(cols, row), m)

----------------------------------------------------------------------------
(* The request: process_files, process_excel and the steps they run *)

MaxFiles == 2

\* an upload that is not one of the seven process types
OtherProcessType == "unknown"

\* allowed_file(filename)
allowed_file(filename) ==
    /\ \E k \in DOMAIN filename : filename[k] = "."
    /\ \/ EndsWith(Lower(filename), ext_xls)
       \/ EndsWith(Lower(filename), ext_xlsx)

Init ==
    /\ process_type \in ProcessTypes \cup {OtherProcessType}
    /\ columns \in LayoutPool
    /\ files \in SeqsUpTo(FilePool, MaxFiles)
    /\ pc = "request"
    /\ sorted_files = <<>>
    /\ i = 0
    /\ merged_data = <<>>
    /\ df = <<>>
    /\ index = 0
    /\ serial_number = 1
    /\ result_data = <<>>
    /\ result = NoResult
    /\ response = "none"
    /\ today = 1
    /\ loads = 0
    /\ port_file \in IF process_type = "brc" THEN {"present", "absent"} ELSE {"present"}
    /\ shb_port = <<>>
    /\ port_df = IF port_file = "present" THEN BrcPortTable ELSE <<>>
    /\ port_mapping = <<>>
    /\ port_name = NaN
    /\ port_code = <<>>
    /\ value = NaN
    /\ normalized = NaN
    /\ threads = <<>>
    /\ temp_file = "none"
    /\ AUTOMATION_AVAILABLE = TRUE

\* process_files, up to the call of process_excel: the uploads are checked
Validate ==
    /\ pc = "request"
    /\ LET valid ==
            /\ files # <<>>
            /\ \A n \in DOMAIN files : allowed_file(files[n].filename)
            /\ IF process_type \in MergeProcessTypes
               THEN Len(files) >= 1
               ELSE Len(files) = 1
       IN  /\ pc' = IF valid THEN "process_excel" ELSE "done"
           /\ response' = IF valid THEN response ELSE "error_400_invalid"
    /\ UNCHANGED <<value, normalized, threads, temp_file, AUTOMATION_AVAILABLE, process_type, columns, files, sorted_files, i, merged_data, df,
                   index, serial_number, result_data, result,
                   today, loads, port_file, shb_port,
                   port_df, port_mapping, port_name, port_code>>

\* process_excel, first part: the merge-first processes start the merge, the
\* others read their one file and pick a converter
ProcessExcel ==
    /\ pc = "process_excel"
    /\ IF process_type \in MergeProcessTypes
       THEN IF files = <<>>
            THEN /\ result' = Raised("ValueError", "No files provided")
                 /\ pc' = "respond"
                 /\ UNCHANGED <<sorted_files, df>>
            ELSE /\ sorted_files' = sort_files_by_sequence(files)
                 /\ pc' = "merge"
                 /\ UNCHANGED <<result, df>>
       ELSE IF files = <<>>
            THEN /\ result' = Raised("ValueError", "No file provided")
                 /\ pc' = "respond"
                 /\ UNCHANGED <<sorted_files, df>>
            ELSE LET r == read_excel(files[1])
                 IN  IF r.kind = "error"
                     THEN /\ result' = r
                          /\ pc' = "respond"
                          /\ UNCHANGED <<sorted_files, df>>
                     ELSE IF process_type \in {"irm", "igst_scroll", "rodtep_scroll", "rodtep_scrip"}
                          THEN /\ df' = r.rows
                               /\ pc' = "convert"
                               /\ UNCHANGED <<sorted_files, result>>
                          ELSE /\ result' = Returned(raw_rows(r.rows))   \* return df
                               /\ pc' = "respond"
                               /\ UNCHANGED <<sorted_files, df>>
    /\ i' = 0
    /\ merged_data' = <<>>
    /\ UNCHANGED <<value, normalized, threads, temp_file, AUTOMATION_AVAILABLE, process_type, columns, files, index, serial_number, result_data,
                   response, today, loads, port_file, shb_port,
                   port_df, port_mapping, port_name, port_code>>

\* merge_excel_files: one iteration of the loop over sorted_files
MergeFile ==
    /\ pc = "merge"
    /\ i < Len(sorted_files)
    /\ LET m == merge_file(merged_data, i, sorted_files[i + 1])
       IN  IF m.raised.kind = "error"
           THEN /\ result' = m.raised
                /\ pc' = "respond"
                /\ UNCHANGED <<merged_data, i>>
           ELSE /\ merged_data' = m.merged
                /\ i' = i + 1
                /\ UNCHANGED <<result, pc>>
    /\ UNCHANGED <<value, normalized, threads, temp_file, AUTOMATION_AVAILABLE, process_type, columns, files, sorted_files, df, index,
                   serial_number, result_data, response,
                   today, loads, port_file, shb_port,
                   port_df, port_mapping, port_name, port_code>>

\* merge_excel_files: after the loop
MergeFinish ==
    /\ pc = "merge"
    /\ i = Len(sorted_files)
    /\ IF merged_data = <<>>
       THEN /\ result' = Raised("ValueError", "No valid data found")
            /\ pc' = "respond"
            /\ UNCHANGED df
       ELSE /\ df' = concat(merged_data)
            /\ pc' = "convert"
            /\ UNCHANGED result
    /\ UNCHANGED <<value, normalized, threads, temp_file, AUTOMATION_AVAILABLE, process_type, columns, files, sorted_files, i, merged_data,
                   index, serial_number, result_data, response,
                   today, loads, port_file, shb_port,
                   port_df, port_mapping, port_name, port_code>>

\* convert_<process>: the head of the converter
ConvertBegin ==
    /\ pc = "convert"
    /\ IF df = <<>>
       THEN /\ result' = Returned(<<>>)                   \* if df.empty: return df
            /\ pc' = "respond"
       ELSE IF process_type = "irm"
            THEN /\ result' = Returned(raw_rows(df))      \* convert_irm: return df
                 /\ pc' = "respond"
            ELSE /\ pc' = "rows"
                 /\ UNCHANGED result
    /\ IF df # <<>> /\ process_type = "brc"
       THEN /\ port_mapping' = load_port_file(port_file, port_df)
            /\ loads' = IF port_file = "present" THEN loads + 1 ELSE loads
       ELSE UNCHANGED <<port_mapping, loads>>
    /\ index' = 0
    /\ serial_number' = 1
    /\ result_data' = <<>>
    /\ UNCHANGED <<value, normalized, threads, temp_file, AUTOMATION_AVAILABLE, process_type, columns, files, sorted_files, i, merged_data, df,
                   response, today, port_file, shb_port, port_df, port_name, port_code>>

\* convert_<process>: one iteration of the loop over the rows
ConvertRow ==
    /\ pc = "rows"
    /\ index < Len(df)
    /\ LET st == row_step(process_type, columns, index, df[index + 1],
                          [serial_number |-> serial_number, result_data |-> result_data])
       IN  /\ serial_number' = st.serial_number
           /\ result_data' = st.result_data
    /\ IF /\ process_type = "brc"
          /\ row_outcome(process_type, columns, index, df[index + 1]) = "emit"
       THEN /\ port_name' = brc_port_name(columns, df[index + 1])
            /\ port_code' = port_code_clean(columns, df[index + 1], port_mapping)
            /\ shb_port' = Append(shb_port, port_code')     \* 'SHB Port': port_code_clean
       ELSE UNCHANGED <<port_name, port_code, shb_port>>
    /\ index' = index + 1
    /\ UNCHANGED <<value, normalized, threads, temp_file, AUTOMATION_AVAILABLE, process_type, columns, files, pc, sorted_files, i, merged_data, df,
                   result, response, today, loads, port_file,
                   port_df, port_mapping>>

\* convert_<process>: the header block is put before the data rows
ConvertEnd ==
    /\ pc = "rows"
    /\ index = Len(df)
    /\ result' = Returned(final_df(process_type, result_data))
    /\ pc' = "respond"
    /\ UNCHANGED <<value, normalized, threads, temp_file, AUTOMATION_AVAILABLE, process_type, columns, files, sorted_files, i, merged_data, df,
                   index, serial_number, result_data, response,
                   today, loads, port_file, shb_port,
                   port_df, port_mapping, port_name, port_code>>

\* process_files, after process_excel
respond(res) ==
    IF res.kind = "error"
    THEN IF res.exc = "ImportError" /\ MentionsXlrd(res)
         THEN "error_500_xlrd"
         ELSE "error_500"
    ELSE IF res.rows = <<>>                               \* processed_df.empty
         THEN "error_400_empty"
         ELSE "exported"

Respond ==
    /\ pc = "respond"
    /\ response' = respond(result)
    /\ pc' = "done"
    /\ UNCHANGED <<value, normalized, threads, temp_file, AUTOMATION_AVAILABLE, process_type, columns, files, sorted_files, i, merged_data, df,
                   index, serial_number, result_data, result,
                   today, loads, port_file, shb_port,
                   port_df, port_mapping, port_name, port_code>>

Next ==
    \/ Validate
    \/ ProcessExcel
    \/ MergeFile
    \/ MergeFinish
    \/ ConvertBegin
    \/ ConvertRow
    \/ ConvertEnd
    \/ Respond

Spec == Init /\ [][Next]_vars

----------------------------------------------------------------------------
(* sort_files_by_sequence on its own *)

MaxSortFiles == 3

SortPool == { File(n, "ok", <<>>) : n \in {fn_x, fn_x1, fn_x2, fn_report1, fn_ab3, fn_y21, fn_e} }

InitSort ==
    /\ process_type = "brc"
    /\ columns = LayoutPlain
    /\ files \in SeqsUpTo(SortPool, MaxSortFiles)
    /\ pc = "sort"
    /\ sorted_files = <<>>
    /\ i = 0
    /\ merged_data = <<>>
    /\ df = <<>>
    /\ index = 0
    /\ serial_number = 1
    /\ result_data = <<>>
    /\ result = NoResult
    /\ response = "none"
    /\ today = 1
    /\ loads = 0
    /\ port_file = "present"
    /\ shb_port = <<>>
    /\ port_df = <<>>
    /\ port_mapping = <<>>
    /\ port_name = NaN
    /\ port_code = <<>>
    /\ value = NaN
    /\ normalized = NaN
    /\ threads = <<>>
    /\ temp_file = "none"
    /\ AUTOMATION_AVAILABLE = TRUE

SortFiles ==
    /\ pc = "sort"
    /\ sorted_files' = sort_files_by_sequence(files)
    /\ pc' = "sorted"
    /\ UNCHANGED <<value, normalized, threads, temp_file, AUTOMATION_AVAILABLE, process_type, columns, files, i, merged_data, df, index,
                   serial_number, result_data, result, response,
                   today, loads, port_file, shb_port,
                   port_df, port_mapping, port_name, port_code>>

NextSort == SortFiles

SpecSort == InitSort /\ [][NextSort]_vars

----------------------------------------------------------------------------
(* get_port_code over a loaded reference table *)

MaxPortRows == 2

\* queries that need not be aliases of the table
PortQueryPool ==
    { NaN,
      Str(<<>>),
      Str(<<"I","N","N","S","A","1">>),
      Str(<<" ","I","N","B","O","M","4"," ">>),
      Str(<<"a","b","1","2","c","d">>),
      Str(<<"n","h","a","v","a"," ","s","h","e","v","a">>),
      Str(<<"K","a","n","d","l","a"," ","P","o","r","t">>),
      Str(<<"I","C","D"," ","4","0","0","0","9","9">>),
      Str(<<" "," ">>),
      Str(<<" ","x","y","z"," ","p","q"," ">>),
      Num(<<"4","0","0","0","9","9">>),
      Num(<<"0">>),
      Str(<<"K","A","N","D","L","A"," ","1","2","3","4","5","6"," ","1","1","0","0","3","7">>),
      Str(<<"N","H","A","V","A"," ","S","H","E","V","A"," ","4","0","0","0","9","9">>),
      Str(<<"X","Y","Z">>),
      Str(<<"S","e","z"," ","K","a","n","d","l","a"," ","U","n","i","t">>),
      Str(<<"T","U","T","I","C","O","R","I","N"," ","S","E","A">>),
      Str(<<"o","l","d"," ","s","e","a"," ","d","r","y"," ","d","o","c","k"," ","t","w","o"," ","e","a","s","t">>) }

InitPort ==
    /\ process_type = "brc"
    /\ columns = LayoutPlain
    /\ files = <<>>
    /\ pc = "load"
    /\ sorted_files = <<>>
    /\ i = 0
    /\ merged_data = <<>>
    /\ df = <<>>
    /\ index = 0
    /\ serial_number = 1
    /\ result_data = <<>>
    /\ result = NoResult
    /\ response = "none"
    /\ today = 1
    /\ loads = 0
    /\ port_df \in SeqsUpTo(PortRowPool, MaxPortRows)
    /\ port_file \in IF port_df = <<>> THEN {"present", "absent"} ELSE {"present"}
    /\ shb_port = <<>>
    /\ port_mapping = <<>>
    /\ port_name = NaN
    /\ port_code = <<>>
    /\ value = NaN
    /\ normalized = NaN
    /\ threads = <<>>
    /\ temp_file = "none"
    /\ AUTOMATION_AVAILABLE = TRUE

\* port_mapping = load_port_code_mapping()
LoadPortMapping ==
    /\ pc = "load"
    /\ port_mapping' = load_port_file(port_file, port_df)
    /\ loads' = IF port_file = "present" THEN loads + 1 ELSE loads
    /\ pc' = "loaded"
    /\ UNCHANGED <<value, normalized, threads, temp_file, AUTOMATION_AVAILABLE, process_type, columns, files, sorted_files, i, merged_data, df,
                   index, serial_number, result_data, result, response,
                   today, port_file, shb_port, port_df, port_name, port_code>>

\* get_port_code(port_name, port_mapping), for an alias of the table or another query
GetPortCode ==
    /\ pc = "loaded"
    /\ \E q \in PortQueryPool \cup { Str(port_mapping[n].key) : n \in DOMAIN port_mapping } :
          /\ port_name' = q
          /\ port_code' = get_port_code(q, port_mapping)
    /\ pc' = "resolved"
    /\ UNCHANGED <<value, normalized, threads, temp_file, AUTOMATION_AVAILABLE, process_type, columns, files, sorted_files, i, merged_data, df,
                   index, serial_number, result_data, result, response,
                   today, loads, port_file, shb_port, port_df, port_mapping>>

NextPort ==
    \/ LoadPortMapping
    \/ GetPortCode

SpecPort == InitPort /\ [][NextPort]_vars

----------------------------------------------------------------------------
(* The number normalizers: convert_to_number, convert_to_integer *)

\* Numbers: an int n, and a float m / 10^d that is written with d decimals.
\* A cell read from a sheet is NaN, a Str, a Num (an int written as its digits)
\* or a Flt.
IntVal(n) == [k |-> "int", v |-> n]
Flt(m, d) == [k |-> "float", v |-> <<m, d>>]

RECURSIVE Pow10(_)
Pow10(d) == IF d = 0 THEN 1 ELSE 10 * Pow10(d - 1)

\* the float m / 10^d, written with as few decimals as it needs
RECURSIVE reduced(_, _)
reduced(m, d) == IF d > 1 /\ m % 10 = 0 THEN reduced(m \div 10, d - 1) ELSE Flt(m, d)

\* int(x) if x == int(x) else x
whole_or_float(m, d) ==
    IF m % Pow10(d) = 0 THEN IntVal(m \div Pow10(d)) ELSE reduced(m, d)

\* int(x) of a float: the decimals are cut off, towards zero
trunc(m, d) == IF m >= 0 THEN m \div Pow10(d) ELSE 0 - ((0 - m) \div Pow10(d))

\* isinstance(value, (int, float))
isnumber(c) == c.k \in {"num", "float"}

\* the branch "if already a number" of convert_to_number
number_as_is(c) ==
    IF c.k = "num" THEN IntVal(DigitsToInt(c.v)) ELSE whole_or_float(c.v[1], c.v[2])

\* float(text): blanks at the ends are dropped; a sign, digits and at most one
\* point with a digit on one side of it are read; anything else raises
\* ValueError (ok = FALSE).  Exponents, "inf", "nan" and "_" between digits,
\* which float() also reads, are not among the texts the model feeds it.
py_float(text) ==
    LET t == Strip(text)
        signed == t # <<>> /\ t[1] \in {"-", "+"}
        body == IF signed THEN Tail(t) ELSE t
        dots == { k \in DOMAIN body : body[k] = "." }
        dot == IF dots = {} THEN Len(body) + 1 ELSE CHOOSE k \in dots : TRUE
        ip == SubSeq(body, 1, dot - 1)
        fp == SubSeq(body, dot + 1, Len(body))
        ok == /\ Cardinality(dots) <= 1
              /\ AllDigits(ip) /\ AllDigits(fp)
              /\ ip \o fp # <<>>
        mag == DigitsToInt(ip \o fp)
    IN  IF ok
        THEN [ok |-> TRUE, m |-> IF signed /\ t[1] = "-" THEN 0 - mag ELSE mag, d |-> Len(fp)]
        ELSE [ok |-> FALSE, m |-> 0, d |-> 0]

\* str.replace(ch, '')
without(text, chars) == SelectSeq(text, LAMBDA c : c \notin chars)

CurrencySymbols == {"₹", "$", "€", "£", "¥"}

\* convert_dbk_disbursement.convert_to_number
dbk_convert_to_number(cell) ==
    IF isna(cell) THEN None
    ELSE IF isnumber(cell) THEN number_as_is(cell)
    ELSE LET cleaned == SelectSeq(cell.v, LAMBDA c : IsDigit(c) \/ c = "." \/ c = "-")
             num_value == py_float(cleaned)
         IN  IF cleaned = <<>> THEN None
             ELSE IF ~num_value.ok THEN None                \* except Exception
             ELSE whole_or_float(num_value.m, num_value.d)

\* convert_brc.convert_to_number
brc_convert_to_number(cell) ==
    IF isna(cell) THEN Str(<<>>)
    ELSE IF isnumber(cell) THEN number_as_is(cell)
    ELSE LET value_str == Strip(without(cell.v, {","}))
             num_value == py_float(value_str)
         IN  IF value_str = <<>> THEN Str(<<>>)
             ELSE IF ~num_value.ok THEN Str(<<>>)           \* except:
             ELSE whole_or_float(num_value.m, num_value.d)

\* convert_igst_scroll.convert_to_number
igst_convert_to_number(cell) ==
    IF isna(cell) THEN Str(<<>>)
    ELSE IF isnumber(cell) THEN number_as_is(cell)
    ELSE LET value_str == Strip(without(without(cell.v, {"₹"}), {","}))
             num_value == py_float(value_str)
         IN  IF value_str = <<>> THEN Str(<<>>)
             ELSE IF ~num_value.ok THEN Str(<<>>)           \* except:
             ELSE whole_or_float(num_value.m, num_value.d)

\* convert_rodtep_scrip.convert_to_number
scrip_convert_to_number(cell) ==
    IF isna(cell) THEN Str(<<>>)
    ELSE IF isnumber(cell) THEN number_as_is(cell)
    ELSE LET stripped == Strip(cell.v)
             no_symbol == without(stripped, CurrencySymbols)
             no_comma == Strip(without(no_symbol, {","}))
             value_str == SelectSeq(no_comma, LAMBDA c : IsDigit(c) \/ c = "." \/ c = "-")
             num_value == py_float(value_str)
         IN  IF stripped = <<>> \/ Upper(stripped) \in {<<"N",".","A">>, <<"N","A">>}
             THEN Str(<<>>)
             ELSE IF value_str = <<>> THEN Str(<<>>)
             ELSE IF ~num_value.ok THEN Str(<<>>)           \* except:
             ELSE whole_or_float(num_value.m, num_value.d)

\* convert_rodtep_scrip.convert_to_integer
convert_to_integer(cell) ==
    IF isna(cell) THEN Str(<<>>)
    ELSE IF cell.k = "num" THEN IntVal(DigitsToInt(cell.v))
    ELSE IF cell.k = "float" THEN IntVal(trunc(cell.v[1], cell.v[2]))
    ELSE LET value_str == SelectSeq(Strip(cell.v), LAMBDA c : IsDigit(c))
         IN  IF value_str = <<>> THEN Str(<<>>) ELSE IntVal(DigitsToInt(value_str))

\* the convert_to_number of each converter; those of convert_dbk_pendency and
\* convert_rodtep_scroll have the text of convert_dbk_disbursement's and
\* convert_igst_scroll's
convert_to_number(proc, cell) ==
    CASE proc \in {"dbk_disbursement", "dbk_pendency"} -> dbk_convert_to_number(cell)
      [] proc = "brc" -> brc_convert_to_number(cell)
      [] proc \in {"igst_scroll", "rodtep_scroll"} -> igst_convert_to_number(cell)
      [] proc = "rodtep_scrip" -> scrip_convert_to_number(cell)

\* new_row: what the output row holds for a numeric field read from the cell
number_field(proc, cell) ==
    IF proc \in {"dbk_disbursement", "dbk_pendency"}
    THEN LET n == convert_to_number(proc, cell)
         IN  IF n = None THEN IntVal(0) ELSE n             \* amount if amount is not None else 0
    ELSE IF proc = "rodtep_scroll" THEN convert_to_number(proc, cell)
    ELSE IF isna(cell) THEN Str(<<>>) ELSE convert_to_number(proc, cell)

\* new_row of convert_rodtep_scrip: 'SB NUMBER', 'SCRIP NUMBER'
integer_field(cell) == IF isna(cell) THEN Str(<<>>) ELSE convert_to_integer(cell)

NumberProcessTypes == ProcessTypes \ {"irm"}

NumberPool ==
    { NaN,
      Str(<<>>),
      Str(<<" "," ">>),
      Str(<<"a","b","c">>),
      Str(<<"N",".","A">>),
      Str(<<"-">>),
      Str(<<"1",".","2",".","3">>),
      Str(<<"₹","1",",","2","3","4",".","0","0">>),
      Str(<<"$","1",",","2","3","4",".","0","0">>),
      Str(<<"€","1",",","2","3","4",".","0","0">>),
      Str(<<"£","1",",","2","3","4",".","0","0">>),
      Str(<<"¥","1",",","2","3","4",".","0","0">>),
      Str(<<"1",",","0","0","0">>),
      Str(<<"₹","1","2",".","5","0">>),
      Str(<<"-","7">>),
      Str(<<" ","4","2"," ">>),
      Str(<<"R","s"," ","2","5","0">>),
      Str(<<"0">>),
      Num(<<"1","5","0","0">>),
      Num(<<"0">>),
      Flt(12340, 1),
      Flt(125, 1) }

InitNumber ==
    /\ process_type \in NumberProcessTypes
    /\ value \in NumberPool
    /\ pc = "cell"
    /\ normalized = NaN
    /\ columns = LayoutPlain
    /\ files = <<>>
    /\ sorted_files = <<>>
    /\ i = 0
    /\ merged_data = <<>>
    /\ df = <<>>
    /\ index = 0
    /\ serial_number = 1
    /\ result_data = <<>>
    /\ result = NoResult
    /\ response = "none"
    /\ today = 1
    /\ loads = 0
    /\ port_file = "present"
    /\ shb_port = <<>>
    /\ port_df = <<>>
    /\ port_mapping = <<>>
    /\ port_name = NaN
    /\ port_code = <<>>
    /\ threads = <<>>
    /\ temp_file = "none"
    /\ AUTOMATION_AVAILABLE = TRUE

\* a numeric field of the output row is filled from the cell
ConvertToNumber ==
    /\ pc = "cell"
    /\ normalized' = number_field(process_type, value)
    /\ pc' = "number"
    /\ UNCHANGED <<value, threads, temp_file, AUTOMATION_AVAILABLE, process_type, columns, files, sorted_files, i, merged_data,
                   df, index, serial_number, result_data, result, response, today, loads,
                   port_file, shb_port, port_df, port_mapping, port_name, port_code>>

\* 'SB NUMBER' or 'SCRIP NUMBER' of a RoDTEP scrip row is filled from the cell
ConvertToInteger ==
    /\ pc = "cell"
    /\ process_type = "rodtep_scrip"
    /\ normalized' = integer_field(value)
    /\ pc' = "integer"
    /\ UNCHANGED <<value, threads, temp_file, AUTOMATION_AVAILABLE, process_type, columns, files, sorted_files, i, merged_data,
                   df, index, serial_number, result_data, result, response, today, loads,
                   port_file, shb_port, port_df, port_mapping, port_name, port_code>>

NextNumber ==
    \/ ConvertToNumber
    \/ ConvertToInteger

SpecNumber == InitNumber /\ [][NextNumber]_vars

----------------------------------------------------------------------------
(* The date normalizers: convert_and_format_date, convert_dot_date *)

\* A date is a number of days; a Timestamp cell holds one.
Ts(n) == [k |-> "ts", v |-> n]

\* the number of days from 1970-01-01 to the day d of the month m of the year y
\* of the Gregorian calendar
days_from_civil(y, m, d) ==
    LET yy == IF m <= 2 THEN y - 1 ELSE y
        era == yy \div 400
        yoe == yy - era * 400
        mp == IF m > 2 THEN m - 3 ELSE m + 9
        doy == (153 * mp + 2) \div 5 + d - 1
        doe == yoe * 365 + yoe \div 4 - yoe \div 100 + doy
    IN  era * 146097 + doe - 719468

\* the year, month and day that lie z days after 1970-01-01
civil_from_days(z) ==
    LET zz == z + 719468
        era == zz \div 146097
        doe == zz - era * 146097
        yoe == (doe - doe \div 1460 + doe \div 36524 - doe \div 146096) \div 365
        doy == doe - (365 * yoe + yoe \div 4 - yoe \div 100)
        mp == (5 * doy + 2) \div 153
        d == doy - (153 * mp + 2) \div 5 + 1
        m == IF mp < 10 THEN mp + 3 ELSE mp - 9
    IN  [y |-> yoe + era * 400 + (IF m <= 2 THEN 1 ELSE 0), m |-> m, d |-> d]

days_in_month(y, m) ==
    IF m = 2
    THEN IF y % 4 = 0 /\ (y % 100 # 0 \/ y % 400 = 0) THEN 29 ELSE 28
    ELSE IF m \in {4, 6, 9, 11} THEN 30 ELSE 31

\* the months of %b
MonthAbbr ==
    << <<"J","a","n">>, <<"F","e","b">>, <<"M","a","r">>, <<"A","p","r">>,
       <<"M","a","y">>, <<"J","u","n">>, <<"J","u","l">>, <<"A","u","g">>,
       <<"S","e","p">>, <<"O","c","t">>, <<"N","o","v">>, <<"D","e","c">> >>

\* the decimal digits of n, at least width of them
RECURSIVE zero_padded(_, _)
zero_padded(n, width) ==
    IF width <= 1 /\ n < 10 THEN <<Digits[n + 1]>>
    ELSE Append(zero_padded(n \div 10, width - 1), Digits[(n % 10) + 1])

\* date_obj.strftime('%d-%b-%Y') of the day z
strftime(z) ==
    LET c == civil_from_days(z)
    IN  zero_padded(c.d, 2) \o <<"-">> \o MonthAbbr[c.m] \o <<"-">> \o zero_padded(c.y, 4)

\* as excel_date, with the first day of 1900 as day 1
excel_date_1900(days) == days_from_civil(1900, 1, 1) + (days - 1)

\* pd.Timestamp('1899-12-30') + pd.Timedelta(days=days), the day of it
excel_date(days) == days_from_civil(1899, 12, 30) + days

\* the whole days of a numeric cell that is not negative
whole_days(c) == IF c.k = "num" THEN DigitsToInt(c.v) ELSE trunc(c.v[1], c.v[2])

\* date_value > 0
is_positive(c) == IF c.k = "num" THEN DigitsToInt(c.v) > 0 ELSE c.v[1] > 0

\* str.split(sep)
RECURSIVE split(_, _)
split(text, sep) ==
    LET cut == { k \in DOMAIN text : text[k] = sep }
        k == IF cut = {} THEN 0 ELSE CHOOSE a \in cut : \A b \in cut : a <= b
    IN  IF k = 0 THEN <<text>>
        ELSE <<SubSeq(text, 1, k - 1)>> \o split(SubSeq(text, k + 1, Len(text)), sep)

\* A format of three directives around one separator, as '%d-%b-%y'.
Fmt(a, sep, b, c) == [dir |-> <<a, b, c>>, sep |-> sep]
f_dby == Fmt("d", "-", "b", "y")
f_dbY == Fmt("d", "-", "b", "Y")
f_Ymd == Fmt("Y", "-", "m", "d")
f_dmY_slash == Fmt("d", "/", "m", "Y")
f_mdY_slash == Fmt("m", "/", "d", "Y")
f_Ymd_slash == Fmt("Y", "/", "m", "d")
f_dmY == Fmt("d", "-", "m", "Y")
f_mdY == Fmt("m", "-", "d", "Y")
f_dmY_dot == Fmt("d", ".", "m", "Y")
f_dbY_blank == Fmt("d", " ", "b", "Y")

NoDate == [ok |-> FALSE, z |-> 0]

\* what one directive reads from its part of the text: a number, or -1
directive_value(dir, part) ==
    CASE dir \in {"d", "m"} ->
            IF Len(part) \in {1, 2} /\ AllDigits(part) THEN DigitsToInt(part) ELSE -1
      [] dir = "Y" -> IF Len(part) = 4 /\ AllDigits(part) THEN DigitsToInt(part) ELSE -1
      [] dir = "y" ->
            IF Len(part) = 2 /\ AllDigits(part)
            THEN IF DigitsToInt(part) < 69 THEN 2000 + DigitsToInt(part)
                 ELSE 1900 + DigitsToInt(part)
            ELSE -1
      [] dir = "b" ->
            LET hits == { k \in DOMAIN MonthAbbr : Upper(MonthAbbr[k]) = Upper(part) }
            IN  IF hits = {} THEN -1 ELSE CHOOSE k \in hits : TRUE

\* the day of datetime(y, m, d), when there is such a day
civil_date(y, m, d) ==
    IF y >= 1 /\ m \in 1..12 /\ d >= 1 /\ d <= days_in_month(y, m)
    THEN [ok |-> TRUE, z |-> days_from_civil(y, m, d)]
    ELSE NoDate

\* pd.to_datetime(text, format=fmt): the whole text has to match the format;
\* %b is read whatever its case
strptime(text, fmt) ==
    LET parts == split(text, fmt.sep)
        val(dir) ==
            LET at == { k \in 1..3 : fmt.dir[k] \in dir }
            IN  directive_value(fmt.dir[CHOOSE k \in at : TRUE], parts[CHOOSE k \in at : TRUE])
    IN  IF Len(parts) # 3 THEN NoDate
        ELSE civil_date(val({"Y", "y"}), val({"m", "b"}), val({"d"}))

\* the first format of the list that reads the text
RECURSIVE first_format(_, _)
first_format(text, date_formats) ==
    IF date_formats = <<>> THEN NoDate
    ELSE IF strptime(text, Head(date_formats)).ok THEN strptime(text, Head(date_formats))
    ELSE first_format(text, Tail(date_formats))

\* date_formats of each converter
date_formats(proc) ==
    CASE proc = "dbk_disbursement" ->
            <<f_dby, f_dbY, f_Ymd, f_dmY_slash, f_mdY_slash, f_Ymd_slash, f_dmY, f_mdY>>
      [] proc = "dbk_pendency" ->
            <<f_dbY, f_dby, f_Ymd, f_dmY_slash, f_mdY_slash, f_Ymd_slash, f_dmY, f_mdY>>
      [] proc = "brc" -> <<f_dmY, f_dmY_slash, f_dbY, f_dby, f_Ymd, f_dmY_dot>>
      [] proc = "igst_scroll" ->
            <<f_Ymd, f_dby, f_dbY, f_dmY_slash, f_mdY_slash, f_Ymd_slash, f_dmY, f_mdY, f_dmY_dot>>
      [] proc = "rodtep_scroll" -> <<f_dmY_dot, f_dmY, f_dmY_slash, f_dbY, f_dby, f_Ymd>>
      [] proc = "rodtep_scrip" ->
            <<f_dmY_dot, f_dbY, f_dby, f_Ymd, f_dmY_slash, f_mdY_slash, f_Ymd_slash, f_dmY, f_mdY>>

\* a text that holds the name of a month is tried again with that name
\* re-cased; the formats of the retry read the same as they did on the text
month_retry(proc, text) ==
    IF \E k \in DOMAIN MonthAbbr : Contains(Upper(text), Upper(MonthAbbr[k]))
    THEN first_format(text, IF proc \in {"brc", "rodtep_scrip"} THEN <<f_dbY>> ELSE <<f_dby, f_dbY>>)
    ELSE NoDate

\* a time of the day, as "10:15"
looks_like_time(text) ==
    LET parts == split(text, ":")
    IN  /\ Len(parts) = 2
        /\ Len(parts[1]) \in {1, 2} /\ AllDigits(parts[1]) /\ DigitsToInt(parts[1]) < 24
        /\ Len(parts[2]) = 2 /\ AllDigits(parts[2]) /\ DigitsToInt(parts[2]) < 60

\* three numbers around "." , "/" or "-" as the flexible parser reads them:
\* year first when the first number has four digits, day first when the first
\* number is beyond 12, month first otherwise
numeric_date(text) ==
    LET seps == { sep \in {".", "/", "-"} :
                    /\ Len(split(text, sep)) = 3
                    /\ \A k \in 1..3 : split(text, sep)[k] # <<>> /\ AllDigits(split(text, sep)[k]) }
        parts == split(text, CHOOSE sep \in seps : TRUE)
        a == DigitsToInt(parts[1])
        b == DigitsToInt(parts[2])
        c == DigitsToInt(parts[3])
        year == IF Len(parts[3]) = 4 THEN c ELSE directive_value("y", parts[3])
    IN  IF seps = {} THEN NoDate
        ELSE IF Len(parts[1]) = 4 THEN civil_date(a, b, c)
        ELSE IF a > 12 THEN civil_date(year, b, a)
        ELSE civil_date(year, a, b)

\* pd.to_datetime(text, errors='coerce'), the flexible parser, on the texts the
\* model feeds it: a text that looks like a time is read with the current day
\* as its date; a day, a month name and a year between blanks are that date;
\* three numbers are read by numeric_date; a text without any digit is not a
\* date (NaT)
flexible_date(text, now) ==
    IF looks_like_time(text) THEN [ok |-> TRUE, z |-> now]
    ELSE IF strptime(text, f_dbY_blank).ok THEN strptime(text, f_dbY_blank)
    ELSE numeric_date(text)

\* the branch "if it's a string" of the normalizers, after N.A and the dots
string_date(proc, date_str, now) ==
    LET by_format == first_format(date_str, date_formats(proc))
        by_retry == IF proc = "rodtep_scroll" THEN NoDate ELSE month_retry(proc, date_str)
        by_parser == flexible_date(date_str, now)
    IN  IF by_format.ok THEN by_format
        ELSE IF by_retry.ok THEN by_retry
        ELSE by_parser

\* convert_rodtep_scroll.convert_dot_date: the text dd.mm.yyyy or dd.mm.yy
dot_date(date_str) ==
    LET parts == split(date_str, ".")
        number(p) == IF p # <<>> /\ AllDigits(p) THEN DigitsToInt(p) ELSE -1
        year == IF Len(parts[3]) = 2 THEN <<"2", "0">> \o parts[3] ELSE parts[3]
    IN  IF Len(parts) = 3
        THEN civil_date(number(year), number(parts[2]), number(parts[1]))
        ELSE NoDate

\* strftime('%d-%b-%Y'), which convert_dbk_pendency turns to upper case
date_text(proc, z) == IF proc = "dbk_pendency" THEN Upper(strftime(z)) ELSE strftime(z)

\* the date normalizer of each converter; days since 1970-01-01 are counted
\* from the Excel epoch in the cells and in now
convert_and_format_date(proc, cell, now) ==
    IF isna(cell) THEN <<>>
    ELSE IF cell.k = "ts" THEN date_text(proc, excel_date(cell.v))
    ELSE IF isstr(cell)
    THEN LET date_str == Strip(cell.v)
             by_dots == IF proc = "rodtep_scroll" /\ Contains(date_str, <<".">>)
                        THEN dot_date(date_str) ELSE NoDate
             parsed == IF by_dots.ok THEN by_dots ELSE string_date(proc, date_str, excel_date(now))
         IN  IF proc = "rodtep_scrip" /\ Upper(date_str) \in {<<"N",".","A">>, <<"N","A">>}
             THEN Upper(date_str)
             ELSE IF date_str = <<>> THEN <<>>
             ELSE IF parsed.ok THEN date_text(proc, parsed.z)
             ELSE <<>>
    ELSE IF proc = "rodtep_scroll" /\ ~is_positive(cell) THEN <<>>      \* if date_value > 0
    ELSE date_text(proc, excel_date(whole_days(cell)))

\* the Excel serial number of a day
serial_of(y, m, d) == days_from_civil(y, m, d) - days_from_civil(1899, 12, 30)

\* the days on which the conversion may run
TodayPool == { serial_of(2025, 7, 10), serial_of(2025, 7, 11) }

DatePool ==
    { NaN,
      Str(<<>>),
      Str(<<"1","0","-","J","u","l","-","2","0","2","5">>),
      Str(<<"1","0","-","j","u","l","-","2","5">>),
      Str(<<"2","0","2","5","-","0","7","-","1","0">>),
      Str(<<"1","0","/","0","7","/","2","0","2","5">>),
      Str(<<"0","7","/","1","3","/","2","0","2","5">>),
      Str(<<"1","0",".","0","7",".","2","0","2","5">>),
      Str(<<"1","0",".","0","7",".","2","5">>),
      Str(<<"3","1","-","0","2","-","2","0","2","5">>),
      Str(<<"1","0"," ","J","u","l"," ","2","0","2","5">>),
      Str(<<"N",".","A">>),
      Str(<<"a","b","c">>),
      Str(<<"1","0",":","1","5">>),
      Num(<<"0">>),
      Num(<<"1">>),
      Num(<<"2">>),
      Num(<<"6","1">>),
      Num(<<"4","5","8","4","8">>),
      Flt(458485, 1),
      Ts(serial_of(2025, 7, 10)) }

InitDate ==
    /\ process_type \in NumberProcessTypes
    /\ value \in DatePool
    /\ today \in TodayPool
    /\ pc = "cell"
    /\ normalized = NaN
    /\ columns = LayoutPlain
    /\ files = <<>>
    /\ sorted_files = <<>>
    /\ i = 0
    /\ merged_data = <<>>
    /\ df = <<>>
    /\ index = 0
    /\ serial_number = 1
    /\ result_data = <<>>
    /\ result = NoResult
    /\ response = "none"
    /\ loads = 0
    /\ port_file = "present"
    /\ shb_port = <<>>
    /\ port_df = <<>>
    /\ port_mapping = <<>>
    /\ port_name = NaN
    /\ port_code = <<>>
    /\ threads = <<>>
    /\ temp_file = "none"
    /\ AUTOMATION_AVAILABLE = TRUE

\* a date field of the output row is filled from the cell
ConvertDate ==
    /\ pc = "cell"
    /\ normalized' = Str(convert_and_format_date(process_type, value, today))
    /\ pc' = "date"
    /\ UNCHANGED <<value, threads, temp_file, AUTOMATION_AVAILABLE, process_type, columns, files, sorted_files, i, merged_data,
                   df, index, serial_number, result_data, result, response, today, loads,
                   port_file, shb_port, port_df, port_mapping, port_name, port_code>>

NextDate == ConvertDate

SpecDate == InitDate /\ [][NextDate]_vars

----------------------------------------------------------------------------
(* BRC conversions of several requests: process_files runs in the threads of
   the server, and each convert_brc calls load_port_code_mapping *)

MaxThreads == 3
MaxConversions == 4

InitLoads ==
    /\ threads = [t \in 1..MaxThreads |-> "idle"]
    /\ temp_file = "none"
    /\ AUTOMATION_AVAILABLE = TRUE
    /\ loads = 0
    /\ port_file \in {"present", "absent"}
    /\ port_df \in SeqsUpTo({r_nhava, r_sahar}, 1)
    /\ port_mapping = <<>>
    /\ process_type = "brc"
    /\ pc = "serving"
    /\ value = NaN
    /\ normalized = NaN
    /\ today = 1
    /\ columns = LayoutPlain
    /\ files = <<>>
    /\ sorted_files = <<>>
    /\ i = 0
    /\ merged_data = <<>>
    /\ df = <<>>
    /\ index = 0
    /\ serial_number = 1
    /\ result_data = <<>>
    /\ result = NoResult
    /\ response = "none"
    /\ shb_port = <<>>
    /\ port_name = NaN
    /\ port_code = <<>>

\* a request for a BRC conversion arrives in a thread that serves none
BrcRequest(t) ==
    /\ threads[t] \in {"idle", "done"}
    /\ Cardinality({u \in DOMAIN threads : threads[u] \in {"convert", "rows"}}) + loads
            < MaxConversions
    /\ threads' = [threads EXCEPT ![t] = "convert"]
    /\ UNCHANGED <<temp_file, AUTOMATION_AVAILABLE,
                   value, normalized, process_type, columns, files, pc, sorted_files, i,
                   merged_data, df, index, serial_number, result_data, result, response,
                   today, loads, port_file, shb_port, port_df, port_mapping, port_name,
                   port_code>>

\* convert_brc: port_mapping = load_port_code_mapping(); the file is read when
\* it exists
BrcLoad(t) ==
    /\ threads[t] = "convert"
    /\ port_mapping' = load_port_file(port_file, port_df)
    /\ loads' = IF port_file = "present" THEN loads + 1 ELSE loads
    /\ threads' = [threads EXCEPT ![t] = "rows"]
    /\ UNCHANGED <<temp_file, AUTOMATION_AVAILABLE,
                   value, normalized, process_type, columns, files, pc, sorted_files, i,
                   merged_data, df, index, serial_number, result_data, result, response,
                   today, port_file, shb_port, port_df, port_name, port_code>>

\* convert_brc returns
BrcReturn(t) ==
    /\ threads[t] = "rows"
    /\ threads' = [threads EXCEPT ![t] = "done"]
    /\ UNCHANGED <<temp_file, AUTOMATION_AVAILABLE,
                   value, normalized, process_type, columns, files, pc, sorted_files, i,
                   merged_data, df, index, serial_number, result_data, result, response,
                   today, loads, port_file, shb_port, port_df, port_mapping, port_name,
                   port_code>>

NextLoads ==
    \E t \in 1..MaxThreads :
        \/ BrcRequest(t)
        \/ BrcLoad(t)
        \/ BrcReturn(t)

SpecLoads == InitLoads /\ [][NextLoads]_vars

----------------------------------------------------------------------------
(* The currency normalizer: get_currency_code *)

\* get_currency_code: currency_map, in the order of the dict literal
currency_map ==
    << <<<<"U","S"," ","D","O","L","L","A","R","S">>, <<"U","S","D">>>>,
       <<<<"U","S","D">>, <<"U","S","D">>>>,
       <<<<"U","S"," ","D","O","L","L","A","R">>, <<"U","S","D">>>>,
       <<<<"U",".","S","."," ","D","O","L","L","A","R">>, <<"U","S","D">>>>,
       <<<<"U",".","S","."," ","D","O","L","L","A","R","S">>, <<"U","S","D">>>>,
       <<<<"D","O","L","L","A","R">>, <<"U","S","D">>>>,
       <<<<"D","O","L","L","A","R","S">>, <<"U","S","D">>>>,
       <<<<"E","U","R","O">>, <<"E","U","R">>>>,
       <<<<"E","U","R","O","S">>, <<"E","U","R">>>>,
       <<<<"E","U","R">>, <<"E","U","R">>>>,
       <<<<"P","O","U","N","D">>, <<"G","B","P">>>>,
       <<<<"P","O","U","N","D","S">>, <<"G","B","P">>>>,
       <<<<"B","R","I","T","I","S","H"," ","P","O","U","N","D">>, <<"G","B","P">>>>,
       <<<<"G","B","P">>, <<"G","B","P">>>>,
       <<<<"Y","E","N">>, <<"J","P","Y">>>>,
       <<<<"J","A","P","A","N","E","S","E"," ","Y","E","N">>, <<"J","P","Y">>>>,
       <<<<"J","P","Y">>, <<"J","P","Y">>>>,
       <<<<"A","U","S","T","R","A","L","I","A","N"," ","D","O","L","L","A","R">>, <<"A","U","D">>>>,
       <<<<"A","U","D">>, <<"A","U","D">>>>,
       <<<<"C","A","N","A","D","I","A","N"," ","D","O","L","L","A","R">>, <<"C","A","D">>>>,
       <<<<"C","A","D">>, <<"C","A","D">>>>,
       <<<<"S","W","I","S","S"," ","F","R","A","N","C">>, <<"C","H","F">>>>,
       <<<<"C","H","F">>, <<"C","H","F">>>>,
       <<<<"Y","U","A","N">>, <<"C","N","Y">>>>,
       <<<<"C","H","I","N","E","S","E"," ","Y","U","A","N">>, <<"C","N","Y">>>>,
       <<<<"R","E","N","M","I","N","B","I">>, <<"C","N","Y">>>>,
       <<<<"C","N","Y">>, <<"C","N","Y">>>>,
       <<<<"I","N","D","I","A","N"," ","R","U","P","E","E">>, <<"I","N","R">>>>,
       <<<<"R","U","P","E","E">>, <<"I","N","R">>>>,
       <<<<"R","U","P","E","S">>, <<"I","N","R">>>>,
       <<<<"R","S">>, <<"I","N","R">>>>,
       <<<<"₹">>, <<"I","N","R">>>>,
       <<<<"I","N","R">>, <<"I","N","R">>>>,
       <<<<"S","I","N","G","A","P","O","R","E"," ","D","O","L","L","A","R">>, <<"S","G","D">>>>,
       <<<<"S","G","D">>, <<"S","G","D">>>>,
       <<<<"H","O","N","G"," ","K","O","N","G"," ","D","O","L","L","A","R">>, <<"H","K","D">>>>,
       <<<<"H","K","D">>, <<"H","K","D">>>>,
       <<<<"N","E","W"," ","Z","E","A","L","A","N","D"," ","D","O","L","L","A","R">>, <<"N","Z","D">>>>,
       <<<<"N","Z","D">>, <<"N","Z","D">>>>,
       <<<<"S","W","E","D","I","S","H"," ","K","R","O","N","A">>, <<"S","E","K">>>>,
       <<<<"S","E","K">>, <<"S","E","K">>>>,
       <<<<"N","O","R","W","E","G","I","A","N"," ","K","R","O","N","E">>, <<"N","O","K">>>>,
       <<<<"N","O","K">>, <<"N","O","K">>>>,
       <<<<"D","A","N","I","S","H"," ","K","R","O","N","E">>, <<"D","K","K">>>>,
       <<<<"D","K","K">>, <<"D","K","K">>>> >>

\* the first entry of currency_map whose key is the text, 0 when none
exact_currency(currency_str) ==
    LET hits == { n \in DOMAIN currency_map : currency_map[n][1] = currency_str }
    IN  IF hits = {} THEN 0 ELSE CHOOSE n \in hits : \A o \in hits : n <= o

\* for key, code in currency_map.items(): if key in currency_str or currency_str in key
partial_currency(currency_str) ==
    LET hits == { n \in DOMAIN currency_map :
                    \/ Contains(currency_str, currency_map[n][1])
                    \/ Contains(currency_map[n][1], currency_str) }
    IN  IF hits = {} THEN 0 ELSE CHOOSE n \in hits : \A o \in hits : n <= o

\* len(s) == 3 and s.isalpha() and s.isupper()
is_three_upper(s) ==
    /\ Len(s) = 3
    /\ \A k \in DOMAIN s : IsAlpha(s[k])
    /\ \E k \in DOMAIN s : IsUpper(s[k])
    /\ \A k \in DOMAIN s : ~IsLowerCh(s[k])

\* get_currency_code with the partial match tried before the exact one
get_currency_code_partial_first(currency_name) ==
    IF no_port_name(currency_name) THEN <<>>
    ELSE LET currency_str == Upper(Strip(currency_name.v))
         IN  IF currency_str = <<>> THEN <<>>
             ELSE IF partial_currency(currency_str) # 0
                  THEN currency_map[partial_currency(currency_str)][2]
             ELSE IF exact_currency(currency_str) # 0
                  THEN currency_map[exact_currency(currency_str)][2]
             ELSE currency_str

\* get_currency_code(currency_name)
get_currency_code(currency_name) ==
    IF no_port_name(currency_name) THEN <<>>       \* not currency_name or pd.isna(currency_name)
    ELSE LET currency_str == Upper(Strip(currency_name.v))
         IN  IF currency_str = <<>> THEN <<>>
             ELSE IF exact_currency(currency_str) # 0
                  THEN currency_map[exact_currency(currency_str)][2]
             ELSE IF partial_currency(currency_str) # 0
                  THEN currency_map[partial_currency(currency_str)][2]
             ELSE IF is_three_upper(currency_str) THEN currency_str
             ELSE currency_str

\* the currency cells offered: every key of the table and other texts and values
CurrencyPool ==
    { Str(currency_map[n][1]) : n \in DOMAIN currency_map } \cup
    { NaN, Str(<<>>), Num(<<"0">>), Num(<<"5">>),
      Str(<<" ","u","s","d"," ">>),
      Str(<<"u","s"," ","d","o","l","l","a","r","s">>),
      Str(<<"A","u","s","t","r","a","l","i","a","n"," ","D","o","l","l","a","r">>),
      Str(<<"a","u","s","t","r","a","l","i","a","n"," ","d","o","l","l","a","r","s">>),
      Str(<<" ","n","e","w"," ","z","e","a","l","a","n","d"," ","d","o","l","l","a","r">>),
      Str(<<"X","Y","Z">>),
      Str(<<"A","R","S">>),
      Str(<<"R","i","y","a","l">>),
      Str(<<"u","s","$">>),
      Str(<<"R","s",".">>),
      Str(<<"₹"," ","5","0","0">>),
      Str(<<"a">>),
      Str(<<"B","i","t","c","o","i","n">>),
      Str(<<"Q","A","R">>),
      Str(<<"a","b">>),
      Str(<<"1","2">>),
      Str(<<"A","E","D">>),
      Str(<<" "," ">>),
      Str(<<"x","y","1">>),
      Str(<<"T","a","k","a">>),
      Str(<<"k","r">>),
      Str(<<"H","o","n","g"," ","K","o","n","g">>),
      Str(<<"z">>) }

InitCurrency ==
    /\ process_type = "brc"
    /\ value \in CurrencyPool
    /\ pc = "cell"
    /\ normalized = NaN
    /\ columns = LayoutPlain
    /\ files = <<>>
    /\ sorted_files = <<>>
    /\ i = 0
    /\ merged_data = <<>>
    /\ df = <<>>
    /\ index = 0
    /\ serial_number = 1
    /\ result_data = <<>>
    /\ result = NoResult
    /\ response = "none"
    /\ today = 1
    /\ loads = 0
    /\ port_file = "present"
    /\ shb_port = <<>>
    /\ port_df = <<>>
    /\ port_mapping = <<>>
    /\ port_name = NaN
    /\ port_code = <<>>
    /\ threads = <<>>
    /\ temp_file = "none"
    /\ AUTOMATION_AVAILABLE = TRUE

\* convert_brc: currency_clean = get_currency_code(currency)
GetCurrencyCode ==
    /\ pc = "cell"
    /\ normalized' = Str(get_currency_code(value))
    /\ pc' = "currency"
    /\ UNCHANGED <<value, threads, temp_file, AUTOMATION_AVAILABLE, process_type, columns, files, sorted_files, i, merged_data,
                   df, index, serial_number, result_data, result, response, today, loads,
                   port_file, shb_port, port_df, port_mapping, port_name, port_code>>

NextCurrency == GetCurrencyCode

SpecCurrency == InitCurrency /\ [][NextCurrency]_vars

----------------------------------------------------------------------------
(* The hand-over of the export to the automation thread: the tail of
   process_files and run_cip_automation_background *)

\* what a call of the handler's tail may raise
HandlerErrors ==
    { Raised("ImportError", XlrdMessage),
      Raised("ImportError", "No module named 'x'"),
      Raised("Exception", "error") }

InitAutomation ==
    /\ process_type \in ProcessTypes
    /\ AUTOMATION_AVAILABLE \in BOOLEAN
    /\ threads = [handler |-> "save", automation |-> "idle"]
    /\ temp_file = "none"
    /\ pc = "export"
    /\ result = NoResult
    /\ response = "none"
    /\ value = NaN
    /\ normalized = NaN
    /\ columns = LayoutPlain
    /\ files = <<>>
    /\ sorted_files = <<>>
    /\ i = 0
    /\ merged_data = <<>>
    /\ df = <<>>
    /\ index = 0
    /\ serial_number = 1
    /\ result_data = <<>>
    /\ today = 1
    /\ loads = 0
    /\ port_file = "present"
    /\ shb_port = <<>>
    /\ port_df = <<>>
    /\ port_mapping = <<>>
    /\ port_name = NaN
    /\ port_code = <<>>

\* process_files: temp_file_path is set and wb.save(temp_file_path) runs
SaveTempFile ==
    /\ threads.handler = "save"
    /\ \/ /\ temp_file' = "exists"
          /\ threads' = [threads EXCEPT !.handler = "start"]
          /\ UNCHANGED result
       \/ \E e \in HandlerErrors :
             /\ result' = e
             /\ threads' = [threads EXCEPT !.handler = "except"]
             /\ UNCHANGED temp_file
    /\ UNCHANGED <<AUTOMATION_AVAILABLE, response,
                   value, normalized, process_type, columns, files, pc, sorted_files, i,
                   merged_data, df, index, serial_number, result_data, today, loads,
                   port_file, shb_port, port_df, port_mapping, port_name, port_code>>

\* process_files: automation_thread.start()
StartAutomation ==
    /\ threads.handler = "start"
    /\ threads' = [handler |-> "send", automation |-> "begin"]
    /\ UNCHANGED <<temp_file, AUTOMATION_AVAILABLE, result, response,
                   value, normalized, process_type, columns, files, pc, sorted_files, i,
                   merged_data, df, index, serial_number, result_data, today, loads,
                   port_file, shb_port, port_df, port_mapping, port_name, port_code>>

\* process_files: return send_file(...)
SendFile ==
    /\ threads.handler = "send"
    /\ \/ /\ response' = "exported"
          /\ threads' = [threads EXCEPT !.handler = "returned"]
          /\ UNCHANGED result
       \/ \E e \in HandlerErrors :
             /\ result' = e
             /\ threads' = [threads EXCEPT !.handler = "except"]
             /\ UNCHANGED response
    /\ UNCHANGED <<temp_file, AUTOMATION_AVAILABLE,
                   value, normalized, process_type, columns, files, pc, sorted_files, i,
                   merged_data, df, index, serial_number, result_data, today, loads,
                   port_file, shb_port, port_df, port_mapping, port_name, port_code>>

\* the handler's except clauses: what becomes of the file at temp_file_path
remove_temp_file(file, e) ==
    IF e.exc = "ImportError" /\ MentionsXlrd(e) THEN file
    ELSE IF file = "exists" THEN "removed_by_handler"     \* os.remove(temp_file_path)
    ELSE file

\* process_files: except ImportError / except Exception
HandleError ==
    /\ threads.handler = "except"
    /\ temp_file' = remove_temp_file(temp_file, result)
    /\ response' = respond(result)
    /\ threads' = [threads EXCEPT !.handler = "returned"]
    /\ UNCHANGED <<AUTOMATION_AVAILABLE, result,
                   value, normalized, process_type, columns, files, pc, sorted_files, i,
                   merged_data, df, index, serial_number, result_data, today, loads,
                   port_file, shb_port, port_df, port_mapping, port_name, port_code>>

\* run_cip_automation_background: up to the call of login_and_navigate
AutomationBegin ==
    /\ threads.automation = "begin"
    /\ threads' = [threads EXCEPT !.automation =
                      IF AUTOMATION_AVAILABLE THEN "login_and_navigate" ELSE "cleanup"]
    /\ UNCHANGED <<temp_file, AUTOMATION_AVAILABLE, result, response,
                   value, normalized, process_type, columns, files, pc, sorted_files, i,
                   merged_data, df, index, serial_number, result_data, today, loads,
                   port_file, shb_port, port_df, port_mapping, port_name, port_code>>

\* run_cip_automation_background: login_and_navigate returns its result, or
\* raises and the outer except ends the thread
LoginAndNavigate ==
    /\ threads.automation = "login_and_navigate"
    /\ \E next \in {"cleanup", "done"} :
          threads' = [threads EXCEPT !.automation = next]
    /\ UNCHANGED <<temp_file, AUTOMATION_AVAILABLE, result, response,
                   value, normalized, process_type, columns, files, pc, sorted_files, i,
                   merged_data, df, index, serial_number, result_data, today, loads,
                   port_file, shb_port, port_df, port_mapping, port_name, port_code>>

\* run_cip_automation_background: if os.path.exists(file_path): os.remove(file_path)
AutomationCleanup ==
    /\ threads.automation = "cleanup"
    /\ temp_file' = IF temp_file = "exists" THEN "removed_by_automation" ELSE temp_file
    /\ threads' = [threads EXCEPT !.automation = "done"]
    /\ UNCHANGED <<AUTOMATION_AVAILABLE, result, response,
                   value, normalized, process_type, columns, files, pc, sorted_files, i,
                   merged_data, df, index, serial_number, result_data, today, loads,
                   port_file, shb_port, port_df, port_mapping, port_name, port_code>>

NextAutomation ==
    \/ SaveTempFile
    \/ StartAutomation
    \/ SendFile
    \/ HandleError
    \/ AutomationBegin
    \/ LoginAndNavigate
    \/ AutomationCleanup

SpecAutomation == InitAutomation /\ [][NextAutomation]_vars

----------------------------------------------------------------------------
(* Properties *)

\* the data rows of an output DataFrame
data_of(rows) == SelectSeq(rows, LAMBDA r : r.kind = "data")

\* the sequence without its element at position k
RemoveAt(s, k) == SubSeq(s, 1, k - 1) \o SubSeq(s, k + 1, Len(s))

\* the converter's loop over the rows has run to its end
Converted ==
    /\ pc \in {"respond", "done"}
    /\ result.kind = "df"
    /\ df # <<>>
    /\ process_type \in ProcessTypes \ {"irm"}

\* merge_excel_files has returned the merged table
Merged ==
    /\ process_type \in MergeProcessTypes
    /\ pc \in {"convert", "rows", "respond", "done"}
    /\ merged_data # <<>>

\* C1: in every converter that emits a serial-number column the serial numbers
\* of the emitted data rows are 1, 2, ..., n in output order, whatever rows
\* were skipped or failed and wherever the merged files meet.
C1_SerialsConsecutive ==
    process_type \in SerialProcessTypes =>
        /\ \A k \in DOMAIN result_data : result_data[k].sno = k
        /\ result.kind = "df" =>
              \A k \in DOMAIN data_of(result.rows) : data_of(result.rows)[k].sno = k

C1_Witness ==
    /\ Converted
    /\ process_type \in SerialProcessTypes \cap MergeProcessTypes
    /\ Len(merged_data) = 2
    /\ \E k \in DOMAIN df : df[k].raises
    /\ Len(data_of(result.rows)) >= 3

\* C2: sort_files_by_sequence returns a permutation of its input in ascending
\* order of extract_file_number, files of equal number keeping their upload
\* order; x(2).xlsx, x(1).xlsx, x.xlsx comes out as x.xlsx, x(1).xlsx, x(2).xlsx.
C2_StableSort ==
    pc = "sorted" =>
        /\ \E p \in Permutations(DOMAIN files) :
              /\ Len(sorted_files) = Len(files)
              /\ \A k \in DOMAIN files : sorted_files[k] = files[p[k]]
              /\ \A k, l \in DOMAIN files :
                    k < l =>
                       LET a == extract_file_number(sorted_files[k].filename)
                           b == extract_file_number(sorted_files[l].filename)
                       IN  a < b \/ (a = b /\ p[k] < p[l])
        /\ files = <<File(fn_x2, "ok", <<>>), File(fn_x1, "ok", <<>>), File(fn_x, "ok", <<>>)>>
              => sorted_files = <<File(fn_x, "ok", <<>>), File(fn_x1, "ok", <<>>), File(fn_x2, "ok", <<>>)>>

C2_Witness ==
    /\ pc = "sorted"
    /\ files = <<File(fn_x2, "ok", <<>>), File(fn_ab3, "ok", <<>>), File(fn_x, "ok", <<>>)>>
    /\ sorted_files = <<File(fn_ab3, "ok", <<>>), File(fn_x, "ok", <<>>), File(fn_x2, "ok", <<>>)>>

\* the rows a file contributes to the merge: all of them at position 1, else
\* all but row 0 when at least 4 str cells of row 0 hold a header keyword
RECURSIVE ExpectedMergedCount(_, _)
ExpectedMergedCount(fs, pos) ==
    IF pos > Len(fs) THEN 0
    ELSE LET f == fs[pos]
             own == IF f.load # "ok" THEN 0
                    ELSE IF pos = 1 THEN Len(f.rows)
                    ELSE IF Len(f.rows) > 0 /\ header_count(f.rows[1]) >= 4
                         THEN Len(f.rows) - 1
                         ELSE Len(f.rows)
         IN  own + ExpectedMergedCount(fs, pos + 1)

\* C3: the merged table has all rows of the first file in sequence order and,
\* of every later file that loads, all rows less row 0 exactly when at least 4
\* str cells of row 0 contain a merge header keyword.
C3_MergedRowCount ==
    Merged => Len(df) = ExpectedMergedCount(sorted_files, 1)

C3_Witness ==
    /\ Merged
    /\ Len(sorted_files) = 2
    /\ sorted_files[1].load = "ok" /\ Len(sorted_files[1].rows) > 0
    /\ header_count(sorted_files[1].rows[1]) >= 4
    /\ sorted_files[2].load = "ok" /\ Len(sorted_files[2].rows) > 0
    /\ header_count(sorted_files[2].rows[1]) >= 4
    /\ Len(df) = Len(sorted_files[1].rows) + Len(sorted_files[2].rows) - 1

\* C4: a request that yields no data row is answered with a failure; a table
\* holding only the header block is never exported.
C4_NoHeaderOnlyExport ==
    response = "exported" =>
        \E n \in DOMAIN result.rows : result.rows[n].kind \in {"data", "raw"}

\* C5: process_excel never returns a dataset for a process type outside the
\* seven identifiers; it fails.
C5_UnknownTypeFails ==
    (pc = "respond" /\ process_type \notin ProcessTypes) => result.kind = "error"

\* C6: for each of the 7 process types and a non-empty input table the output
\* begins with the process's header block, and the data rows follow it.
C6_HeaderBlockFirst ==
    (pc = "respond" /\ process_type \in ProcessTypes /\ result.kind = "df" /\ df # <<>>) =>
        LET hb == header_rows(process_type)
        IN  /\ hb # <<>>
            /\ Len(result.rows) >= Len(hb)
            /\ SubSeq(result.rows, 1, Len(hb)) = hb
            /\ \A n \in (Len(hb) + 1)..Len(result.rows) : result.rows[n].kind = "data"

\* the files of sorted_files that load and are appended: the first one, and
\* every later one that has rows
Appended(fs) ==
    { n \in DOMAIN fs : fs[n].load = "ok" /\ (n = 1 \/ Len(fs[n].rows) > 0) }

\* C7: a file that fails to load is skipped and the others are merged in
\* sequence order; merge_excel_files raises only when no file was usable.
C7_FailedFileSkipped ==
    (process_type \in MergeProcessTypes /\ pc \in {"convert", "rows", "respond", "done"}) =>
        /\ Len(merged_data) = Cardinality(Appended(sorted_files))
        /\ \A n \in Appended(sorted_files) :
              LET at == Cardinality({ m \in Appended(sorted_files) : m <= n })
              IN  \/ merged_data[at] = sorted_files[n].rows
                  \/ n > 1 /\ merged_data[at] = Tail(sorted_files[n].rows)
        /\ (Appended(sorted_files) # {}) => (df = concat(merged_data) /\ result.exc # "ValueError")
        /\ (Appended(sorted_files) = {} /\ sorted_files # <<>>) =>
              (result.kind = "error" /\ result.msg = "No valid data found")
        /\ result.exc # "ImportError"

C7_Witness ==
    /\ Merged
    /\ Len(sorted_files) = 2
    /\ sorted_files[1].load # "ok"
    /\ sorted_files[2].load = "ok"
    /\ df = sorted_files[2].rows
    /\ df # <<>>

\* the files process_excel tries to read
Attempted ==
    IF process_type \in MergeProcessTypes THEN Range(files) ELSE {files[1]}

\* C8: when a .xls file cannot be read because its reader is missing,
\* process_excel raises ImportError, for the merge-first processes too.
C8_ImportErrorPropagates ==
    (/\ pc = "respond"
     /\ \E f \in Attempted : f.load = "no_reader" /\ EndsWith(Lower(f.filename), ext_xls))
        => (result.kind = "error" /\ result.exc = "ImportError")

\* the rows of df at which the loop body raises
FailingRows ==
    { k \in DOMAIN df : row_outcome(process_type, columns, k - 1, df[k]) = "error" }

\* the data rows the converter emits for a table
ConvertedData(rows) ==
    convert_rows(process_type, columns, rows, 0, [serial_number |-> 1, result_data |-> <<>>])

AliasResolved ==
    /\ pc = "resolved"
    /\ isstr(port_name)
    /\ has_key(port_mapping, port_name.v)

\* C10 as stated: every alias of the loaded table, whatever its length or
\* shape, resolves to the code it is registered with.
C10_EveryAliasResolves ==
    AliasResolved => port_code = value_of(port_mapping, port_name.v)

\* C10: an alias of the loaded table resolves to the code it is registered
\* with, e.g. "NHAVA SHEVA" to "INNSA1", provided the alias is not blank, has
\* no blank at either end and is not itself of the shape of a code (6
\* characters, 2 letters then 4 letters or digits).
C10_AliasResolves ==
    (/\ AliasResolved
     /\ port_name.v # <<>>
     /\ Strip(port_name.v) = port_name.v
     /\ ~is_code_shape(port_name.v))
        => port_code = value_of(port_mapping, port_name.v)

C10_Witness ==
    /\ AliasResolved
    /\ Len(port_df) = 2
    /\ port_name = Str(<<"N","H","A","V","A"," ","S","H","E","V","A">>)
    /\ ~is_code_shape(port_name.v)
    /\ port_code = <<"I","N","N","S","A","1">>
    /\ \E n \in DOMAIN port_mapping : port_mapping[n].code # port_code

\* get_port_code has answered a query whose trimmed text has the shape of a code
CodeShapedResolved ==
    /\ pc = "resolved"
    /\ isstr(port_name)
    /\ is_code_shape(Strip(port_name.v))

\* C11: a query whose trimmed text is 6 characters, 2 letters then 4 letters
\* or digits, is returned as that text whatever the reference table holds, and
\* resolving the answer again gives the same answer ("INNSA1" stays "INNSA1").
C11_CodeShapeReturned ==
    CodeShapedResolved =>
        /\ port_code = Strip(port_name.v)
        /\ get_port_code(Str(port_code), port_mapping) = port_code
        /\ port_name = Str(<<"I","N","N","S","A","1">>) => port_code = <<"I","N","N","S","A","1">>

C11_Witness ==
    /\ CodeShapedResolved
    /\ has_key(port_mapping, port_name.v)
    /\ value_of(port_mapping, port_name.v) # port_name.v
    /\ port_code = port_name.v

\* get_port_code has gone past the exact match: the trimmed query is not
\* blank, has not the shape of a code and is no alias of the table
PartialResolved ==
    /\ pc = "resolved"
    /\ isstr(port_name)
    /\ Strip(port_name.v) # <<>>
    /\ ~is_code_shape(Strip(port_name.v))
    /\ ~has_key(port_mapping, Strip(port_name.v))

\* the standalone 6-digit numbers of the query that are aliases of the table
RegisteredPins ==
    { p \in Range(pin_codes(Upper(Strip(port_name.v)))) : has_key(port_mapping, p) }

\* C12 as stated: a query holding any standalone 6-digit number that is a PIN
\* alias resolves to the code of such a PIN.
C12_AnyPinResolves ==
    (PartialResolved /\ RegisteredPins # {}) =>
        port_code \in { value_of(port_mapping, p) : p \in RegisteredPins }

\* C12, its example: a query that is itself a PIN alias resolves to the PIN's code
C12_PinAliasResolves ==
    (/\ pc = "resolved" /\ isstr(port_name)
     /\ Len(port_name.v) = 6 /\ AllDigits(port_name.v)
     /\ has_key(port_mapping, port_name.v))
        => port_code = value_of(port_mapping, port_name.v)

\* C12: when the query is neither an alias nor of the shape of a code and the
\* first standalone 6-digit number in it is a PIN alias, the code of that PIN
\* is returned, ahead of the keyword table, the fuzzy score, the acronym and
\* the regex; a later 6-digit number is not looked up.
C12_FirstPinResolves ==
    LET pins == pin_codes(Upper(Strip(port_name.v)))
    IN  /\ C12_PinAliasResolves
        /\ (PartialResolved /\ pins # <<>> /\ has_key(port_mapping, pins[1]))
              => port_code = value_of(port_mapping, pins[1])

C12_Witness ==
    /\ PartialResolved
    /\ port_name = Str(<<"N","H","A","V","A"," ","S","H","E","V","A"," ","4","0","0","0","9","9">>)
    /\ first_keyword(common_keywords, Upper(port_name.v)) = <<"I","N","N","S","A","1">>
    /\ has_key(port_mapping, <<"4","0","0","0","9","9">>)
    /\ port_code = <<"I","N","B","O","M","4">>

\* none of the matching steps of get_port_code finds anything for the text q:
\* alias, PIN, keyword table, fuzzy score, acronym, fuzzy phrase, code regex
NoStepMatches(q, m) ==
    LET port_clean == Upper(q)
        pins == pin_codes(port_clean)
        best == best_match(m, 1, Lower(q), [code |-> <<>>, score |-> 0])
        acronym == port_acronym(port_clean)
    IN  /\ ~has_key(m, q)
        /\ ~(pins # <<>> /\ has_key(m, pins[1]))
        /\ first_keyword(common_keywords, port_clean) = <<>>
        /\ ~(best.code # <<>> /\ best.score > 30)
        /\ ~(acronym # <<>> /\ has_key(m, acronym))
        /\ first_keyword(fuzzy_matches, port_clean) = <<>>
        /\ \A a \in DOMAIN port_clean : ~IsCodeAt(port_clean, a)

\* get_port_code has answered a query for which no step matches
Unmatched ==
    /\ pc = "resolved"
    /\ ~isna(port_name)
    /\ ~is_code_shape(Strip(port_name.v))
    /\ NoStepMatches(Strip(port_name.v), port_mapping)

AbsentFileResolved ==
    /\ process_type = "brc"
    /\ port_file = "absent"
    /\ pc \in {"rows", "respond", "done"}
    /\ shb_port # <<>>

\* the codes that get_port_code can give without any alias: those of its two
\* fixed tables
FixedCodes ==
    { common_keywords[k][2] : k \in DOMAIN common_keywords } \cup
    { fuzzy_matches[k][2] : k \in DOMAIN fuzzy_matches }

\* C14 as stated: with the port file absent the BRC conversion completes and
\* every port cell that is not blank comes out unchanged as 'SHB Port'.
C14_PassThrough ==
    (AbsentFileResolved /\ isstr(port_name) /\ Strip(port_name.v) # <<>>)
        => port_code = port_name.v

\* C14: with the port file absent the alias table is empty, nothing is read,
\* and the BRC conversion still completes with one 'SHB Port' per data row;
\* get_port_code is then not a pure pass-through: a port cell for which no
\* fixed keyword, fixed phrase or code-shaped word matches comes out as its
\* trimmed text, any other comes out as the code of a fixed table or as the
\* code-shaped word found in it ("Nhava Sheva Port" gives "INNSA1").
C14_AbsentFileDegrades ==
    (process_type = "brc" /\ port_file = "absent") =>
        /\ port_mapping = <<>>
        /\ loads = 0
        /\ result.kind # "error" \/ pc \notin {"respond", "done"} \/ df = <<>>
        /\ (pc \in {"respond", "done"} /\ df # <<>>) => Len(shb_port) = Len(result_data)
        /\ AbsentFileResolved =>
              /\ port_code = shb_port[Len(shb_port)]
              /\ ~no_port_name(port_name) =>
                    LET q == Strip(port_name.v)
                    IN  /\ (is_code_shape(q) \/ NoStepMatches(q, <<>>)) => port_code = q
                        /\ port_code \in {q} \cup FixedCodes \cup
                              { SubSeq(Upper(q), a, a + 5) : a \in 1..(Len(q) - 5) }
              /\ port_name = Str(c_NSPort) => port_code = c_INNSA1

C14_Witness ==
    /\ AbsentFileResolved
    /\ pc = "done"
    /\ response = "exported"
    /\ \E k \in DOMAIN shb_port : shb_port[k] = c_INNSA1
    /\ \E k \in DOMAIN shb_port : shb_port[k] = c_1500

\* a cell that holds no number: empty, or a text without any digit
HoldsNoNumber(c) == isna(c) \/ (isstr(c) /\ \A k \in DOMAIN c.v : ~IsDigit(c.v[k]))

\* C15: in every converter's output a numeric field whose source cell is empty
\* or cannot be parsed as a number holds the empty text and never 0.
C15_EmptyNeverZero ==
    (pc \in {"number", "integer"} /\ HoldsNoNumber(value)) => normalized = Str(<<>>)

\* the text "1,234.00" behind a currency symbol
Amount1234(symbol) == Str(<<symbol, "1", ",", "2", "3", "4", ".", "0", "0">>)

\* C16: in every converter that normalizes numbers the currency symbols and the
\* thousands separators are stripped from a text before it is parsed, and a
\* whole value is an integer: "1,234.00" behind any of the five symbols gives
\* 1234 and "1,000" gives 1000.
C16_CurrencyStripped ==
    pc = "number" =>
        /\ (\E symbol \in CurrencySymbols : value = Amount1234(symbol)) => normalized = IntVal(1234)
        /\ value = Str(<<"1", ",", "0", "0", "0">>) => normalized = IntVal(1000)

\* a date normalizer has been given an Excel serial number that is not negative
SerialNormalized ==
    /\ pc = "date"
    /\ isnumber(value)

C18_LoadedAtMostOnce == loads <= 1

\* C19: a conversion of the same input gives the same output whatever the
\* current time: the text written for a date cell is the text that a run on
\* any other day writes for it.
C19_SameOnAnyDay ==
    pc = "date" =>
        \A now \in TodayPool :
            normalized.v = convert_and_format_date(process_type, value, now)

\* the filename with only its extension removed: the text before its last dot
Stem(filename) ==
    LET dots == { k \in DOMAIN filename : filename[k] = "." }
    IN  IF dots = {} THEN filename
        ELSE SubSeq(filename, 1, (CHOOSE k \in dots : \A j \in dots : j <= k) - 1)

\* the number of the first "(<digits>)" of the text, 0 when it has none
FirstParenNumber(text) ==
    LET starts == { a \in DOMAIN text : \E b \in DOMAIN text : IsParenNumber(text, a, b) }
        a == CHOOSE x \in starts : \A y \in starts : x <= y
        b == CHOOSE y \in DOMAIN text : IsParenNumber(text, a, y)
    IN  IF starts = {} THEN 0 ELSE DigitsToInt(SubSeq(text, a + 1, b - 1))

\* C20: the sequence number of a file is the number of the first "(<digits>)"
\* of its filename stem, the filename without its extension, and 0 when the
\* stem has none, also when the stem holds dots or several such numbers.
C20_NumberFromStem ==
    pc = "sorted" =>
        \A k \in DOMAIN sorted_files :
            extract_file_number(sorted_files[k].filename)
                = FirstParenNumber(Stem(sorted_files[k].filename))

----------------------------------------------------------------------------
\* seg is what merge_excel_files keeps of one file: nothing of a file that did
\* not load, else all its rows or all but the first
KeptOf(seg, file) ==
    IF file.load # "ok" THEN seg = <<>>
    ELSE seg = file.rows \/ (file.rows # <<>> /\ seg = Tail(file.rows))

\* rows is made of one run per file of fs, the runs in the order of fs
RECURSIVE Segmented(_, _)
Segmented(rows, fs) ==
    IF fs = <<>> THEN rows = <<>>
    ELSE \E n \in 0..Len(rows) :
            /\ KeptOf(SubSeq(rows, 1, n), Head(fs))
            /\ Segmented(SubSeq(rows, n + 1, Len(rows)), Tail(fs))

\* the files in ascending sequence number, each upload exactly once
InSequenceOrder(fs) ==
    /\ Len(fs) = Len(files)
    /\ \A f \in Range(files) :
          Cardinality({ k \in DOMAIN fs : fs[k] = f })
              = Cardinality({ k \in DOMAIN files : files[k] = f })
    /\ \A a, b \in DOMAIN fs :
          a < b => extract_file_number(fs[a].filename) <= extract_file_number(fs[b].filename)

\* C21: the merged table is the kept rows of the uploads, file after file in
\* ascending sequence number and, within one file, one contiguous run in the
\* file's own row order.
C21_FileThenRowOrder ==
    (process_type \in MergeProcessTypes /\ pc = "convert") =>
        /\ InSequenceOrder(sorted_files)
        /\ Segmented(df, sorted_files)

\* report-style uploads given as (2) then (1), both readable: the rows of (1)
\* come first in the merged table
C21_Witness ==
    /\ process_type \in MergeProcessTypes
    /\ pc = "convert"
    /\ Len(files) = 2
    /\ files[1].filename = fn_x2 /\ files[1].load = "ok"
    /\ files[2].filename = fn_x1 /\ files[2].load = "ok"
    /\ sorted_files = <<files[2], files[1]>>
    /\ df = files[2].rows \o Tail(files[1].rows)

----------------------------------------------------------------------------
\* an identifying field that is absent: an empty cell, '' or an unmapped column
absent_field(c) == isna(c) \/ (isstr(c) /\ c.v = <<>>)

\* the cells of the two identifying fields of a row, for the converters that
\* locate them through the sheet's columns
identifying_cells(proc, cols, row) ==
    CASE proc = "brc" ->
            { cell_at(row, brc_column_indices(cols).brc_number),
              cell_at(row, brc_column_indices(cols).sb_number) }
      [] proc = "igst_scroll" ->
            { cell_at(row, col_index(cols, col_Shipping_Bill_No)),
              cell_at(row, col_index(cols, col_IGST_Scroll_No)) }
      [] proc = "rodtep_scroll" ->
            { cell_at(row, rodtep_scroll_column_map(cols).sb_number),
              cell_at(row, rodtep_scroll_column_map(cols).scroll_number) }

\* C22: a row whose two identifying fields are both absent produces no output
\* row (BRC number and SB number for brc, shipping-bill number and scroll
\* number for the scroll converters).
C22_UnidentifiedRowSkipped ==
    process_type \in {"brc", "igst_scroll", "rodtep_scroll"} =>
        \A n \in DOMAIN result_data :
            \E c \in identifying_cells(process_type, columns, result_data[n]) :
                ~absent_field(c)

\* C23: a row whose cells are all empty produces no output row, in every
\* converter that builds output rows.
C23_BlankRowSkipped ==
    process_type \in ProcessTypes \ {"irm"} =>
        \A n \in DOMAIN result_data : ~all_na(result_data[n])

\* the header keywords a converter looks for in the cells of a row
header_keywords(proc) ==
    CASE proc = "brc" -> brc_header_keywords
      [] proc = "rodtep_scroll" -> rodtep_scroll_header_keywords
      [] proc = "rodtep_scrip" -> rodtep_scrip_header_keywords

\* the number of str cells of the row that contain one of the keywords
keyword_cells(row, keywords) ==
    Cardinality({ j \in DOMAIN row.cells :
        /\ isstr(row.cells[j])
        /\ \E n \in DOMAIN keywords : Contains(Lower(row.cells[j].v), keywords[n]) })

\* C24: a row is dropped as an embedded header only when at least 3 of its
\* string cells contain a header keyword of the process.
C24_HeaderNeedsThreeCells ==
    (pc = "rows" /\ process_type \in {"brc", "rodtep_scroll", "rodtep_scrip"}) =>
        \A n \in 1..index :
            row_outcome(process_type, columns, n - 1, df[n]) = "skip_header"
                => keyword_cells(df[n], header_keywords(process_type)) >= 3

----------------------------------------------------------------------------
\* get_port_code has reached the scoring of the aliases: the query is past
\* the exact match, its first PIN is no alias and no built-in keyword is in it
FuzzyReached ==
    /\ PartialResolved
    /\ LET pins == pin_codes(Upper(Strip(port_name.v)))
       IN  ~(pins # <<>> /\ has_key(port_mapping, pins[1]))
    /\ first_keyword(common_keywords, Upper(Strip(port_name.v))) = <<>>

\* either text contains the other, letter case apart
EitherContains(q, alias) ==
    Contains(Lower(q), Lower(alias)) \/ Contains(Lower(alias), Lower(q))

\* the number of words the two texts share, letter case apart
SharedWords(q, alias) ==
    Cardinality(Range(Words(Lower(q))) \cap Range(Words(Lower(alias))))

\* the score as stated: 100 for containment, otherwise 20 a shared word
StatedScore(q, alias) ==
    IF EitherContains(q, alias) THEN 100 ELSE 20 * SharedWords(q, alias)

\* the score as computed: the larger of the two
LargerScore(q, alias) ==
    IF EitherContains(q, alias) /\ 100 >= 20 * SharedWords(q, alias)
    THEN 100
    ELSE 20 * SharedWords(q, alias)

\* the greatest score over the aliases of m, 0 for an empty table
TopScore(q, m) ==
    IF m = <<>> THEN 0
    ELSE LET scores == { LargerScore(q, m[n].key) : n \in DOMAIN m }
         IN  CHOOSE x \in scores : \A y \in scores : y <= x

\* the first alias, in the order of registration, of the greatest score
FirstTop(q, m) ==
    LET top == TopScore(q, m)
    IN  CHOOSE n \in DOMAIN m :
            /\ LargerScore(q, m[n].key) = top
            /\ \A o \in 1..(n - 1) : LargerScore(q, m[o].key) < top

\* C25 as stated: every alias scores 100 when it contains the query or the
\* query contains it, and otherwise 20 times the number of shared words.
C25_ScoreAsStated ==
    FuzzyReached =>
        \A n \in DOMAIN port_mapping :
            match_score(Lower(Strip(port_name.v)), Lower(port_mapping[n].key))
                = StatedScore(Strip(port_name.v), port_mapping[n].key)

\* C25: in the scoring step every alias scores the larger of 100 (when the
\* alias or the query contains the other, letter case apart) and 20 times the
\* number of words they share; when the greatest score is above 30 the code
\* of the first alias that has it is returned, if that code is not empty;
\* when it is not above 30 the table resolves nothing at this step, so one
\* shared word alone does not resolve and two shared words do.
C25_BestAboveThirty ==
    FuzzyReached =>
        LET q == Strip(port_name.v)
            m == port_mapping
            acronym == port_acronym(Upper(q))
            top == TopScore(q, m)
        IN  /\ \A n \in DOMAIN m :
                  match_score(Lower(q), Lower(m[n].key)) = LargerScore(q, m[n].key)
            /\ top > 30 =>
                  LET first == FirstTop(q, m)
                  IN  m[first].code # <<>> => port_code = m[first].code
            /\ (top <= 30 /\ ~has_key(m, acronym))
                  => port_code = resolve_partial(q, <<>>)
            /\ (/\ \A n \in DOMAIN m : ~EitherContains(q, m[n].key) /\ SharedWords(q, m[n].key) <= 1
                /\ ~has_key(m, acronym))
                  => port_code = resolve_partial(q, <<>>)
            /\ (/\ \E n \in DOMAIN m : SharedWords(q, m[n].key) >= 2
                /\ \A n \in DOMAIN m : m[n].code # <<>>)
                  => \E n \in DOMAIN m :
                        /\ port_code = m[n].code
                        /\ LargerScore(q, m[n].key) = top

\* 'Sez Kandla Unit' shares two words with the alias 'KANDLA SEZ', which
\* neither contains it nor is contained in it: the alias's code is returned
C25_Witness ==
    /\ FuzzyReached
    /\ port_df = <<r_goa, r_kandla_sez>>
    /\ \A n \in DOMAIN port_mapping : ~EitherContains(port_name.v, port_mapping[n].key)
    /\ port_name = Str(<<"S","e","z"," ","K","a","n","d","l","a"," ","U","n","i","t">>)
    /\ TopScore(port_name.v, port_mapping) = 40
    /\ port_code = <<"I","N","K","D","L","6">>

----------------------------------------------------------------------------
\* get_currency_code has answered a query that is not blank
CurrencyResolved ==
    /\ pc = "currency"
    /\ ~no_port_name(value)
    /\ Strip(value.v) # <<>>

\* the keys and the codes of the synonym table
CurrencyKeys == { currency_map[n][1] : n \in DOMAIN currency_map }
CurrencyCodes == { currency_map[n][2] : n \in DOMAIN currency_map }

\* the code registered for a key
CodeOfKey(key) == currency_map[CHOOSE n \in DOMAIN currency_map : currency_map[n][1] = key][2]

\* the keys that contain the text or are contained in it
PartialKeys(text) ==
    { key \in CurrencyKeys : Contains(text, key) \/ Contains(key, text) }

\* C26: the query is upper-cased and trimmed; an exact key gives its code;
\* else a key that contains the query or is contained in it gives its code;
\* else the upper-cased, trimmed query is returned, 3 letters or not. A
\* query that is one of the table's 3-letter codes resolves to itself.
C26_FallbackChain ==
    CurrencyResolved =>
        LET q == Upper(Strip(value.v))
        IN  /\ normalized.k = "str"
            /\ q \in CurrencyKeys => normalized.v = CodeOfKey(q)
            /\ (q \notin CurrencyKeys /\ PartialKeys(q) # {})
                  => normalized.v \in { CodeOfKey(key) : key \in PartialKeys(q) }
            /\ (q \notin CurrencyKeys /\ PartialKeys(q) = {}) => normalized.v = q
            /\ q \in CurrencyCodes => normalized.v = q

\* 'Australian Dollar' is a key: its own code is returned although the key
\* 'DOLLAR', earlier in the table, is contained in it and stands for USD
C26_Witness ==
    /\ CurrencyResolved
    /\ value = Str(<<"A","u","s","t","r","a","l","i","a","n"," ","D","o","l","l","a","r">>)
    /\ <<"D","O","L","L","A","R">> \in PartialKeys(Upper(value.v))
    /\ CodeOfKey(<<"D","O","L","L","A","R">>) = <<"U","S","D">>
    /\ normalized = Str(<<"A","U","D">>)

----------------------------------------------------------------------------
\* the ColumnMapping a converter builds: for each field its column, from 1,
\* or 0 when the field is not mapped
column_mapping(proc, cols) ==
    CASE proc = "brc" -> brc_column_indices(cols)
      [] proc = "rodtep_scroll" -> rodtep_scroll_column_map(cols)
      [] proc = "rodtep_scrip" -> rodtep_scrip_column_map(cols)

MappingProcessTypes == {"brc", "rodtep_scroll", "rodtep_scrip"}

\* the header texts a field is looked for by
field_headers(proc, f) ==
    CASE proc = "brc" ->
            IF f = "port_code" THEN {Lower(brc_expected_columns[f]), t_port}
            ELSE {Lower(brc_expected_columns[f])}
      [] proc = "rodtep_scroll" ->
            CASE f = "sb_number" -> {t_sb_number, t_shipping_bill}
              [] f = "sb_date" -> {t_sb_date, t_shipping_bill_date}
              [] f = "scroll_number" -> {t_scroll_number}
              [] f = "scroll_date" -> {t_scroll_date}
              [] f = "location" -> {t_location}
              [] f = "amount" -> {t_sanctioned, t_amount}

\* the fixed positional column of a field, from 0
positional_column(proc, f) ==
    CASE proc = "brc" -> brc_default_position[f]
      [] proc = "rodtep_scroll" ->
            [sb_number |-> 0, sb_date |-> 1, scroll_number |-> 2,
             scroll_date |-> 3, location |-> 5, amount |-> 6][f]

\* the columns whose header matches the field: the header text contains a
\* text of the field or is contained in it, letter case apart
header_matches(proc, cols, f) ==
    { j \in DOMAIN cols :
        \E text \in field_headers(proc, f) :
            Contains(Lower(cols[j]), text) \/ Contains(text, Lower(cols[j])) }

\* C27: a field that no header matches is read from its own positional
\* column, also when other fields were matched by header.
C27_OwnPositionalColumn ==
    (pc = "rows" /\ process_type \in {"brc", "rodtep_scroll"}) =>
        \A f \in DOMAIN column_mapping(process_type, columns) :
            header_matches(process_type, columns, f) = {}
                => column_mapping(process_type, columns)[f]
                      = IF positional_column(process_type, f) < Len(columns)
                        THEN positional_column(process_type, f) + 1
                        ELSE 0

\* C30: no two distinct fields of the ColumnMapping are mapped to the same
\* source column.
C30_FieldsOnDistinctColumns ==
    (pc = "rows" /\ process_type \in MappingProcessTypes) =>
        \A f, g \in DOMAIN column_mapping(process_type, columns) :
            (f # g /\ column_mapping(process_type, columns)[f] # 0)
                => column_mapping(process_type, columns)[f]
                      # column_mapping(process_type, columns)[g]

----------------------------------------------------------------------------
\* the aliases one row of the reference table registers
RowAliases(row) == { e.key : e \in Range(add_port_row(<<>>, row)) }

\* the rows of the table, by position, that register the alias
Registering(alias) == { n \in DOMAIN port_df : alias \in RowAliases(port_df[n]) }

\* the code cell of the row loaded last among those that register the alias
LastCode(alias) ==
    LET n == CHOOSE x \in Registering(alias) : \A y \in Registering(alias) : y <= x
    IN  Strip(port_df[n][2].v)

\* C28: the build of the reference table always ends with a table; every
\* alias some row registers is in it exactly once, with the code of the last
\* row that registers it (the table is not written again after the build).
C28_LastRegisteredWins ==
    (pc = "loaded" /\ port_file = "present") =>
        /\ \A n \in DOMAIN port_df : \A alias \in RowAliases(port_df[n]) :
              has_key(port_mapping, alias)
        /\ \A a, b \in DOMAIN port_mapping :
              port_mapping[a].key = port_mapping[b].key => a = b
        /\ \A a \in DOMAIN port_mapping :
              /\ Registering(port_mapping[a].key) # {}
              /\ port_mapping[a].code = LastCode(port_mapping[a].key)

\* 'MUNDRA' is the cleaned name of 'MUNDRA PORT' and the name of a later row
\* with another code: the later code is kept
C28_Witness ==
    /\ pc = "loaded"
    /\ port_df = <<r_mundra, r_mundra_sez>>
    /\ Registering(<<"M","U","N","D","R","A">>) = {1, 2}
    /\ value_of(port_mapping, <<"M","U","N","D","R","A">>) = <<"I","N","A","J","M","6">>
    /\ value_of(port_mapping, <<"M","U","N","D","R","A"," ","P","O","R","T">>) = <<"I","N","M","U","N","1">>

----------------------------------------------------------------------------
\* C29: the file handed to the automation thread exists as long as the
\* thread has not come back from login_and_navigate, and once the thread
\* has been started the request handler never removes the file.
C29_FileOutlivesAutomation ==
    /\ threads.automation \in {"begin", "login_and_navigate"} => temp_file = "exists"
    /\ threads.automation # "idle" => temp_file # "removed_by_handler"

====
